---- MODULE Spec2Model ----
(***************************************************************************)
(* Chat response pipeline of ai-sidebar: the AIServiceManager               *)
(* (src/ai-services.js), the ChatInterface that drives it                   *)
(* (src/unnamed/part_000) and its allow-list HTML sanitizer.                *)
(*                                                                         *)
(* The specifications share the variables:                                 *)
(*   SpecHist       the conversation history driven through the manager,    *)
(*   SpecHistZero   the same with maxHistoryLength set to 0,                *)
(*   SpecProvider   setProvider with known and unknown ids,                 *)
(*   SpecManager    getAIResponse and testConnection called directly,       *)
(*   Spec           the ChatInterface event handlers, requests in flight,   *)
(*   SpecTranslate  the translation panel,                                  *)
(*   SpecTitle      sendMessage with the chat titles,                       *)
(*   SpecRender     addMessage and addSystemMessage on their own,           *)
(*   SpecSan        sanitizeHTML applied to parsed DOM forests,             *)
(*   SpecSanTwice   sanitizeHTML applied to its own output,                 *)
(*   SpecErrors     sendMessage and handleTranslate with failing requests,  *)
(*   SpecSave       saveChats, its timer, localStorage and a reload,        *)
(*   SpecChats      the chat list: new, load, delete and clear all,         *)
(*   SpecWindow     the sliding window of the main process                  *)
(*                  (src/file-handler.js:275-435),                          *)
(*   SpecDrop       the drop zones of FileHandler.createDropZone            *)
(*                  (src/file-handler.js:215-265).                          *)
(***************************************************************************)
EXTENDS Integers, Sequences, FiniteSets, TLC

VARIABLES
    \* AIServiceManager fields (src/ai-services.js:5-9)
    currentProvider,
    conversationHistory,
    maxHistoryLength,
    \* AI_CONFIG[p].apiKey (src/config.js:5-32)
    apiKey,
    \* ChatInterface fields and the DOM state its handlers read and write
    phase,
    isProcessing,
    messageInput,
    inputDisabled,
    sendDisabled,
    providerSelector,
    chats,
    currentChatId,
    chatContainer,
    translateOutput,
    \* environment: pending promises, requests put on the network, id sources
    inflight,
    netCount,
    lastFetch,
    nextReq,
    clock,
    \* history variables (observation only, never read by an action's guard)
    appended,
    settled,
    \* sanitizeHTML: its parsed input forest and its result, and the result of
    \* a second call on what the first returned
    sanInput,
    sanOutput,
    sanAgain,
    \* saveChats / loadChats (src/unnamed/part_000:222-248): the timer id kept in
    \* this.saveTimeout (0 for null), the timers that are pending, and the
    \* localStorage item 'aiSidebarChats'
    saveTimeout,
    timers,
    localStorage,
    \* the window animation (src/file-handler.js:352-399): the window's x and
    \* visibility, the global animationFrameId (0 while unset), the animations
    \* whose next frame is scheduled
    winX,
    winVisible,
    animationFrameId,
    animations,
    \* createDropZone (src/file-handler.js:215-265), per target element: the
    \* elements whose listeners are attached, the counter of the closure made
    \* last for the element, and whether the element has the class 'drag-over'
    dropZones,
    dragCounter,
    dragOver

managerVars == <<currentProvider, conversationHistory, maxHistoryLength>>
uiVars == <<phase, isProcessing, messageInput, inputDisabled, sendDisabled,
            providerSelector, chats, currentChatId, chatContainer, translateOutput>>
envVars == <<inflight, netCount, lastFetch, nextReq, clock>>
storeVars == <<saveTimeout, timers, localStorage>>
animVars == <<winX, winVisible, animationFrameId, animations>>
dropVars == <<dropZones, dragCounter, dragOver>>
sideVars == <<storeVars, animVars, dropVars>>
\* What no action of the manager or of the ChatInterface handlers writes.
sanVars == <<sanInput, sanOutput, sanAgain, sideVars>>
vars == <<currentProvider, conversationHistory, maxHistoryLength, apiKey,
          phase, isProcessing, messageInput, inputDisabled, sendDisabled,
          providerSelector, chats, currentChatId, chatContainer, translateOutput,
          inflight, netCount, lastFetch, nextReq, clock, appended, settled,
          sanInput, sanOutput, sanAgain, saveTimeout, timers, localStorage,
          winX, winVisible, animationFrameId, animations, dropZones, dragCounter,
          dragOver>>

(***************************************************************************)
(* Bounds of the model.                                                    *)
(***************************************************************************)
MaxAppends == 12
MaxRequests == 2
MaxChats == 2
MaxDisplay == 1
MaxNodes == 4
\* The animation duration in clock ticks, and the most animations running at
\* once.
AnimationTicks == 2
MaxAnimations == 2
\* The most a drop zone's counter moves away from 0, the most target elements
\* and the most files in one drop.
MaxDragDepth == 2
MaxZones == 2
MaxFiles == 2

(***************************************************************************)
(* JavaScript helpers.                                                     *)
(***************************************************************************)
Min(a, b) == IF a < b THEN a ELSE b
Max(a, b) == IF a > b THEN a ELSE b

\* !!s for a string: only the empty string is falsy.
Truthy(s) == s # ""

\* String.prototype.startsWith
StartsWith(s, p) == Len(s) >= Len(p) /\ SubSeq(s, 1, Len(p)) = p

RECURSIVE TrimStart(_)
TrimStart(s) ==
    IF Len(s) > 0 /\ SubSeq(s, 1, 1) = " " THEN TrimStart(SubSeq(s, 2, Len(s))) ELSE s

RECURSIVE TrimEnd(_)
TrimEnd(s) ==
    IF Len(s) > 0 /\ SubSeq(s, Len(s), Len(s)) = " "
    THEN TrimEnd(SubSeq(s, 1, Len(s) - 1)) ELSE s

\* String.prototype.trim
Trim(s) == TrimEnd(TrimStart(s))

\* Array.prototype.slice(start) with one argument: a negative start counts from
\* the end, and -0 is 0.
Slice(arr, start) ==
    LET len == Len(arr)
        from == IF start < 0 THEN Max(len + start, 0) ELSE Min(start, len)
    IN  SubSeq(arr, from + 1, len)

(***************************************************************************)
(* AIServiceManager (src/ai-services.js).                                   *)
(***************************************************************************)
Providers == {"openai", "mistral", "gemini"}
Roles == {"user", "assistant"}
DefaultMaxHistoryLength == 10

\* A turn of the history. role and content are the fields of the pushed
\* object; req is a history field naming the dispatch that appended the turn:
\* its number, its kind and the chat that was current when it started.
Turn(role, content, req) == [role |-> role, content |-> content, req |-> req]

NoDispatch == [id |-> 0, kind |-> "api", chat |-> 0]

\* A plausible slip: keep the first maxHistoryLength turns instead of the last.
addToHistoryKeepsFirst(hist, turn) ==
    LET pushed == Append(hist, turn)
    IN  IF Len(pushed) > maxHistoryLength
        THEN SubSeq(pushed, 1, maxHistoryLength)
        ELSE pushed

\* addToHistory: push, then slice(-maxHistoryLength) when over capacity.
addToHistory(hist, turn) ==
    LET pushed == Append(hist, turn)
    IN  IF Len(pushed) > maxHistoryLength
        THEN Slice(pushed, -maxHistoryLength)
        ELSE pushed

\* getConversationContext: a fresh array of {role, content} objects.
getConversationContext(hist) ==
    [i \in 1..Len(hist) |-> [role |-> hist[i].role, content |-> hist[i].content]]

\* A slip: the id is not checked against the list of providers.
setProviderUnchecked(provider) == [currentProvider |-> provider, result |-> TRUE]

\* setProvider: the new value of currentProvider and the value returned.
setProvider(provider) ==
    IF provider \in Providers
    THEN [currentProvider |-> provider, result |-> TRUE]
    ELSE [currentProvider |-> currentProvider, result |-> FALSE]

(***************************************************************************)
(* SpecHist: the history driven directly through addToHistory and          *)
(* clearHistory.  The k-th turn appended since the last clear carries the  *)
(* content "m<k>", so every turn of a run is distinguishable.               *)
(***************************************************************************)
Capacities == {1, 2, 3, DefaultMaxHistoryLength}

\* Chats are numbered by the clock (Date.now()); chat 1 is one saved by an
\* earlier run, and 0 stands for null.
SavedChatId == 1
FirstChatId == SavedChatId + 1

IdleUI ==
    /\ phase = "loading"
    /\ isProcessing = FALSE
    /\ messageInput = ""
    /\ inputDisabled = FALSE
    /\ sendDisabled = FALSE
    /\ providerSelector = "openai"
    /\ chats = <<>>
    /\ currentChatId = 0
    /\ chatContainer = <<>>
    /\ translateOutput = ""

IdleEnv ==
    /\ inflight = {}
    /\ netCount = 0
    /\ lastFetch = [kind |-> "none"]
    /\ nextReq = 1
    /\ clock = FirstChatId
    /\ settled = [kind |-> "none"]

\* Window geometry (src/file-handler.js:280-281): slid in, and off screen.
TargetX == 10
StartX == -650

\* The target elements createDropZone is called for.
Zones == 1..MaxZones

IdleSide ==
    /\ saveTimeout = 0
    /\ timers = {}
    /\ localStorage = [item |-> "null"]
    /\ winX = StartX
    /\ winVisible = FALSE
    /\ animationFrameId = 0
    /\ animations = {}
    /\ dropZones = {}
    /\ dragCounter = [z \in Zones |-> 0]
    /\ dragOver = [z \in Zones |-> FALSE]

IdleSan ==
    /\ sanInput = <<>>
    /\ sanOutput = [done |-> FALSE]
    /\ sanAgain = [done |-> FALSE]
    /\ IdleSide

InitHist ==
    /\ currentProvider = "openai"
    /\ conversationHistory = <<>>
    /\ maxHistoryLength \in Capacities
    /\ apiKey = [p \in Providers |-> ""]
    /\ appended = <<>>
    /\ IdleUI /\ IdleEnv /\ IdleSan

AddToHistory(role, content) ==
    /\ Len(appended) < MaxAppends
    /\ conversationHistory' = addToHistory(conversationHistory, Turn(role, content, NoDispatch))
    /\ appended' = Append(appended, Turn(role, content, NoDispatch))
    /\ UNCHANGED <<currentProvider, maxHistoryLength, apiKey, uiVars, envVars,
                   settled, sanVars>>

ClearHistory ==
    /\ conversationHistory' = <<>>
    /\ appended' = <<>>
    /\ UNCHANGED <<currentProvider, maxHistoryLength, apiKey, uiVars, envVars,
                   settled, sanVars>>

NextHist ==
    \/ \E role \in Roles : AddToHistory(role, "m" \o ToString(Len(appended) + 1))
    \/ ClearHistory

SpecHist == InitHist /\ [][NextHist]_vars

LastAppended(n) ==
    LET k == Min(n, Len(appended))
    IN  SubSeq(appended, Len(appended) - k + 1, Len(appended))

(***************************************************************************)
(* C1. History bound: the history never holds more than maxHistoryLength   *)
(* turns, and what getConversationContext returns is exactly the last      *)
(* min(N, k) of the k turns appended so far, in the order they were        *)
(* appended; so after N or more appends it has length N.                   *)
(***************************************************************************)
HistoryBound ==
    /\ Len(conversationHistory) <= maxHistoryLength
    /\ getConversationContext(conversationHistory)
         = getConversationContext(LastAppended(maxHistoryLength))
    /\ (Len(appended) >= maxHistoryLength
          => Len(getConversationContext(conversationHistory)) = maxHistoryLength)

\* The program's own capacity, two turns past it: two evictions have happened.
HistoryBoundWitness ==
    /\ maxHistoryLength = DefaultMaxHistoryLength
    /\ Len(appended) = maxHistoryLength + 2
    /\ conversationHistory[1].content = "m3"

(***************************************************************************)
(* SpecHistZero: the same history operations on a manager whose            *)
(* maxHistoryLength has been set to 0.                                      *)
(***************************************************************************)
InitHistZero ==
    /\ currentProvider = "openai"
    /\ conversationHistory = <<>>
    /\ maxHistoryLength = 0
    /\ apiKey = [p \in Providers |-> ""]
    /\ appended = <<>>
    /\ IdleUI /\ IdleEnv /\ IdleSan

SpecHistZero == InitHistZero /\ [][NextHist]_vars

(***************************************************************************)
(* C14. Zero capacity is legal: with maxHistoryLength 0 the length          *)
(* invariant holds after every append, so the history is always empty.      *)
(***************************************************************************)
ZeroCapacityKeepsHistoryEmpty ==
    maxHistoryLength = 0 =>
        /\ Len(conversationHistory) <= maxHistoryLength
        /\ conversationHistory = <<>>

(***************************************************************************)
(* SpecProvider: setProvider called with known and unknown ids, between     *)
(* appends to the history.  settled records the last call: its argument,    *)
(* the provider that was active before it, and what it returned.            *)
(***************************************************************************)
ProviderIds == Providers \cup {"claude", "OpenAI", ""}

SetProvider(id) ==
    /\ currentProvider' = setProvider(id).currentProvider
    /\ settled' = [kind |-> "setProvider", id |-> id, before |-> currentProvider,
                   result |-> setProvider(id).result]
    /\ UNCHANGED <<conversationHistory, maxHistoryLength, apiKey, uiVars, envVars,
                   appended, sanVars>>

NextProvider ==
    \/ \E id \in ProviderIds : SetProvider(id)
    \/ AddToHistory("user", "m" \o ToString(Len(appended) + 1))

SpecProvider == InitHist /\ [][NextProvider]_vars

(***************************************************************************)
(* C15. setProvider(id): for an id other than 'openai', 'mistral' and       *)
(* 'gemini' it returns false and the active provider stays what it was; for *)
(* one of the three it returns true and the id is the active provider; a    *)
(* call with the id that is already active changes nothing; the history is  *)
(* the same after the call as before it, whatever the id.                   *)
(***************************************************************************)
SetProviderContract ==
    [][ \A id \in ProviderIds :
            SetProvider(id) =>
                /\ conversationHistory' = conversationHistory
                /\ IF id \in {"openai", "mistral", "gemini"}
                   THEN settled'.result = TRUE /\ currentProvider' = id
                   ELSE settled'.result = FALSE /\ currentProvider' = currentProvider
                /\ currentProvider = id =>
                      UNCHANGED <<currentProvider, conversationHistory, maxHistoryLength>>
      ]_vars

\* With mistral active and a turn in the history, setProvider('claude') has
\* returned false and mistral is still active.
SetProviderContractWitness ==
    /\ settled.kind = "setProvider"
    /\ settled.id = "claude"
    /\ settled.before = "mistral"
    /\ settled.result = FALSE
    /\ currentProvider = "mistral"
    /\ Len(conversationHistory) = 1

(***************************************************************************)
(* The DOM as sanitizeHTML sees it (src/unnamed/part_000:529-615).  A       *)
(* parsed forest is a sequence of nodes; tagName is upper case, as the DOM  *)
(* reports it for HTML elements, and attribute names are lower case, as     *)
(* the HTML parser leaves them.                                             *)
(***************************************************************************)
TextNode(data) == [nodeType |-> "text", data |-> data]
CommentNode(data) == [nodeType |-> "comment", data |-> data]
Attr(name, value) == [name |-> name, value |-> value]
Element(tagName, attributes, childNodes) ==
    [nodeType |-> "element", tagName |-> tagName, attributes |-> attributes,
     childNodes |-> childNodes]

UpperLetters == "ABCDEFGHIJKLMNOPQRSTUVWXYZ"
LowerLetters == "abcdefghijklmnopqrstuvwxyz"

LowerChar(c) ==
    IF \E i \in 1..Len(UpperLetters) : SubSeq(UpperLetters, i, i) = c
    THEN LET i == CHOOSE j \in 1..Len(UpperLetters) : SubSeq(UpperLetters, j, j) = c
         IN  SubSeq(LowerLetters, i, i)
    ELSE c

\* String.prototype.toLowerCase
RECURSIVE ToLowerCase(_)
ToLowerCase(s) ==
    IF s = "" THEN ""
    ELSE LowerChar(SubSeq(s, 1, 1)) \o ToLowerCase(SubSeq(s, 2, Len(s)))

\* The allowedTags object literal: its own properties.
allowedTags ==
    [p |-> <<>>,
     h1 |-> <<>>, h2 |-> <<>>, h3 |-> <<>>, h4 |-> <<>>, h5 |-> <<>>, h6 |-> <<>>,
     ul |-> <<>>, ol |-> <<>>, li |-> <<>>,
     blockquote |-> <<>>,
     code |-> <<>>,
     pre |-> <<>>,
     strong |-> <<>>, b |-> <<>>,
     em |-> <<>>, i |-> <<>>,
     a |-> <<"href">>,
     hr |-> <<>>,
     table |-> <<>>, thead |-> <<>>, tbody |-> <<>>, tr |-> <<>>, th |-> <<>>,
     td |-> <<>>,
     img |-> <<"src", "alt">>,
     br |-> <<>>,
     span |-> <<"class">>]

\* allowedTags is an ordinary object, so allowedTags[key] also finds what it
\* inherits from Object.prototype; every such value is a function or an
\* object: truthy, and without an includes method.
ObjectPrototypeKeys ==
    {"constructor", "hasOwnProperty", "isPrototypeOf", "propertyIsEnumerable",
     "toLocaleString", "toString", "valueOf", "__proto__", "__defineGetter__",
     "__defineSetter__", "__lookupGetter__", "__lookupSetter__"}

\* A slip the table invites: only the table's own keys count (a lookup with
\* no prototype behind it).
allowedTagsGetOwnOnly(key) ==
    IF key \in DOMAIN allowedTags
    THEN [kind |-> "array", items |-> allowedTags[key]]
    ELSE [kind |-> "undefined"]

\* The value of the expression allowedTags[key].
allowedTagsGet(key) ==
    IF key \in DOMAIN allowedTags
    THEN [kind |-> "array", items |-> allowedTags[key]]
    ELSE IF key \in ObjectPrototypeKeys
         THEN [kind |-> "inherited"]
         ELSE [kind |-> "undefined"]

\* Array.prototype.includes on a tuple
Includes(arr, x) == \E i \in 1..Len(arr) : arr[i] = x

\* The own properties of allowedAttributes: one validator per attribute name.
AllowedAttributeNames == {"href", "src", "alt", "class"}

\* A slip in the validators: a name that has a validator passes whatever the
\* value is.
allowedAttributesAnyValue(name, value) == name \in AllowedAttributeNames

\* allowedAttributes[name](value), for a name that has a validator.
allowedAttributes(name, value) ==
    CASE name = "href" ->
            \/ StartsWith(value, "http://")
            \/ StartsWith(value, "https://")
            \/ StartsWith(value, "#")
      [] name = "src" ->
            \/ StartsWith(value, "http://")
            \/ StartsWith(value, "https://")
            \/ StartsWith(value, "data:")
      [] name = "alt" -> TRUE
      [] name = "class" -> TRUE
      [] OTHER -> FALSE

\* Node.textContent of an element: the data of its text descendants, in
\* document order; comments contribute nothing.
RECURSIVE textContent(_)
RECURSIVE ForestText(_)
textContent(node) ==
    CASE node.nodeType = "text" -> node.data
      [] node.nodeType = "comment" -> ""
      [] OTHER -> ForestText(node.childNodes)

ForestText(nodes) ==
    IF nodes = <<>> THEN ""
    ELSE textContent(Head(nodes)) \o ForestText(Tail(nodes))

\* The attribute loop of sanitizeNode over an element whose tag passed the
\* truthiness test with the looked-up value `look`: the attributes that are
\* set on the new element, or threw when allowedTags[tagName].includes is
\* not a function (the first attribute already throws the TypeError).
RECURSIVE CopyAttributes(_, _)
CopyAttributes(look, attrs) ==
    IF attrs = <<>> THEN [threw |-> FALSE, attributes |-> <<>>]
    ELSE IF look.kind # "array" THEN [threw |-> TRUE, attributes |-> <<>>]
    ELSE LET attrName == ToLowerCase(Head(attrs).name)
             attrValue == Head(attrs).value
             rest == CopyAttributes(look, Tail(attrs))
             keep == /\ Includes(look.items, attrName)
                     /\ attrName \in AllowedAttributeNames
                     /\ allowedAttributes(attrName, attrValue)
         IN  [threw |-> rest.threw,
              attributes |-> IF keep
                             THEN <<Attr(attrName, attrValue)>> \o rest.attributes
                             ELSE rest.attributes]

\* sanitizeNode and its loop over child nodes.  The result is
\* [threw, nodes]: nodes is <<>> for a null result, else the one new node.
RECURSIVE sanitizeNode(_)
RECURSIVE SanitizeNodes(_)
sanitizeNode(node) ==
    CASE node.nodeType = "text" ->
            [threw |-> FALSE, nodes |-> <<TextNode(node.data)>>]
      [] node.nodeType = "element" ->
            LET tagName == ToLowerCase(node.tagName)
                look == allowedTagsGet(tagName)
            IN  IF look.kind = "undefined"
                THEN [threw |-> FALSE, nodes |-> <<TextNode(textContent(node))>>]
                ELSE LET copied == CopyAttributes(look, node.attributes)
                         kids == SanitizeNodes(node.childNodes)
                     IN  IF copied.threw \/ kids.threw
                         THEN [threw |-> TRUE, nodes |-> <<>>]
                         ELSE [threw |-> FALSE,
                               nodes |-> <<Element(tagName, copied.attributes,
                                                   kids.nodes)>>]
      [] OTHER -> [threw |-> FALSE, nodes |-> <<>>]

SanitizeNodes(nodes) ==
    IF nodes = <<>> THEN [threw |-> FALSE, nodes |-> <<>>]
    ELSE LET first == sanitizeNode(Head(nodes))
             rest == SanitizeNodes(Tail(nodes))
         IN  IF first.threw \/ rest.threw
             THEN [threw |-> TRUE, nodes |-> <<>>]
             ELSE [threw |-> FALSE, nodes |-> first.nodes \o rest.nodes]

(***************************************************************************)
(* The innerHTML getter over the sanitized nodes (HTML fragment             *)
(* serialisation): text is escaped, void elements have no end tag.          *)
(***************************************************************************)
VoidElements == {"img", "br", "hr"}

EscapeTextChar(c) ==
    CASE c = "&" -> "&amp;"
      [] c = "<" -> "&lt;"
      [] c = ">" -> "&gt;"
      [] OTHER -> c

EscapeAttrChar(c) ==
    CASE c = "&" -> "&amp;"
      [] c = "\"" -> "&quot;"
      [] OTHER -> c

RECURSIVE EscapeText(_)
EscapeText(s) ==
    IF s = "" THEN ""
    ELSE EscapeTextChar(SubSeq(s, 1, 1)) \o EscapeText(SubSeq(s, 2, Len(s)))

RECURSIVE EscapeAttr(_)
EscapeAttr(s) ==
    IF s = "" THEN ""
    ELSE EscapeAttrChar(SubSeq(s, 1, 1)) \o EscapeAttr(SubSeq(s, 2, Len(s)))

RECURSIVE SerializeAttrs(_)
SerializeAttrs(attrs) ==
    IF attrs = <<>> THEN ""
    ELSE " " \o Head(attrs).name \o "=\"" \o EscapeAttr(Head(attrs).value) \o "\""
         \o SerializeAttrs(Tail(attrs))

RECURSIVE SerializeNode(_)
RECURSIVE innerHTML(_)
SerializeNode(node) ==
    CASE node.nodeType = "text" -> EscapeText(node.data)
      [] node.nodeType = "comment" -> "<!--" \o node.data \o "-->"
      [] OTHER ->
            "<" \o node.tagName \o SerializeAttrs(node.attributes) \o ">"
            \o (IF node.tagName \in VoidElements THEN ""
                ELSE innerHTML(node.childNodes) \o "</" \o node.tagName \o ">")

innerHTML(nodes) ==
    IF nodes = <<>> THEN ""
    ELSE SerializeNode(Head(nodes)) \o innerHTML(Tail(nodes))

\* sanitizeHTML on the forest tempDiv holds after `tempDiv.innerHTML = html`:
\* either it throws, or it returns the serialisation of the sanitized nodes.
sanitizeHTML(forest) ==
    LET r == SanitizeNodes(forest)
    IN  [done |-> TRUE, threw |-> r.threw, nodes |-> r.nodes,
         html |-> IF r.threw THEN "" ELSE innerHTML(r.nodes)]

(***************************************************************************)
(* SpecSan: `tempDiv.innerHTML = html` builds a forest, sanitizeHTML then   *)
(* runs once over it.  The parser is modelled by its tree builder: it       *)
(* appends one node at a time at the right-hand edge of the forest, at any  *)
(* open depth, so every forest of at most MaxNodes nodes over the leaves    *)
(* and element heads below is built; it never makes two adjacent text       *)
(* nodes, children under a void element, or anything but one text child     *)
(* under a raw-text element.  The documented scenario is parsed whole.      *)
(***************************************************************************)
Leaves == {TextNode("x"), TextNode("1<2"), CommentNode("c")}

Heads ==
    {Element("P", <<>>, <<>>),
     Element("A", <<Attr("href", "javascript:alert(1)")>>, <<>>),
     Element("A", <<Attr("href", "https://x/"), Attr("onclick", "evil()")>>, <<>>),
     Element("IMG", <<Attr("src", "https://x/y.png"), Attr("onload", "evil()")>>, <<>>),
     Element("SCRIPT", <<Attr("onerror", "evil()")>>, <<>>),
     Element("DIV", <<Attr("onclick", "evil()")>>, <<>>),
     Element("CONSTRUCTOR", <<>>, <<>>),
     Element("CONSTRUCTOR", <<Attr("class", "k")>>, <<>>),
     Element("SPAN", <<Attr("class", "k"), Attr("href", "#t")>>, <<>>)}

ParserVoid == {"IMG", "BR", "HR"}
ParserRawText == {"SCRIPT", "STYLE"}

\* Whether the parser can leave `node` as the next child after `kids` under
\* an element named tagName ("" for the fragment's root).
ChildOK(tagName, kids, node) ==
    /\ tagName \notin ParserVoid
    /\ tagName \in ParserRawText => (kids = <<>> /\ node.nodeType = "text")
    /\ tagName = "TABLE" =>
          (node.nodeType = "comment"
             \/ (node.nodeType = "element" /\ node.tagName = "CAPTION"))
    /\ (node.nodeType = "element" /\ node.tagName = "CAPTION") => tagName = "TABLE"
    /\ ~(/\ kids # <<>>
         /\ kids[Len(kids)].nodeType = "text"
         /\ node.nodeType = "text")

\* Start tags that close an open ancestor instead of nesting in it: an <a>
\* inside an <a>, and a block inside a <p>.
ClosesAncestor(ancestorTag, node) ==
    /\ node.nodeType = "element"
    /\ \/ ancestorTag = "A" /\ node.tagName = "A"
       \/ ancestorTag = "P" /\ node.tagName \in {"P", "DIV", "TABLE"}

RECURSIVE CanAppendAt(_, _, _, _)
CanAppendAt(tagName, kids, depth, node) ==
    IF ClosesAncestor(tagName, node) THEN FALSE
    ELSE IF depth = 0 THEN ChildOK(tagName, kids, node)
    ELSE /\ kids # <<>>
         /\ kids[Len(kids)].nodeType = "element"
         /\ CanAppendAt(kids[Len(kids)].tagName, kids[Len(kids)].childNodes,
                        depth - 1, node)

RECURSIVE AppendAt(_, _, _)
AppendAt(kids, depth, node) ==
    IF depth = 0 THEN Append(kids, node)
    ELSE [kids EXCEPT ![Len(kids)].childNodes = AppendAt(@, depth - 1, node)]

RECURSIVE NodeCount(_)
NodeCount(nodes) ==
    IF nodes = <<>> THEN 0
    ELSE 1 + (IF Head(nodes).nodeType = "element"
              THEN NodeCount(Head(nodes).childNodes) ELSE 0)
           + NodeCount(Tail(nodes))

\* <p>Hi <b>there</b></p><script>bad()</script>, parsed.
ScenarioForest ==
    <<Element("P", <<>>, <<TextNode("Hi "), Element("B", <<>>, <<TextNode("there")>>)>>),
      Element("SCRIPT", <<>>, <<TextNode("bad()")>>)>>

InitSan ==
    /\ currentProvider = "openai"
    /\ conversationHistory = <<>>
    /\ maxHistoryLength = DefaultMaxHistoryLength
    /\ apiKey = [p \in Providers |-> ""]
    /\ appended = <<>>
    /\ IdleUI /\ IdleEnv /\ IdleSan

ParserAppend(depth, node) ==
    /\ ~sanOutput.done
    /\ NodeCount(sanInput) < MaxNodes
    /\ CanAppendAt("", sanInput, depth, node)
    /\ sanInput' = AppendAt(sanInput, depth, node)
    /\ UNCHANGED <<managerVars, apiKey, uiVars, envVars, appended, settled, sanOutput,
                   sanAgain, sideVars>>

ParseScenario ==
    /\ ~sanOutput.done
    /\ sanInput = <<>>
    /\ sanInput' = ScenarioForest
    /\ UNCHANGED <<managerVars, apiKey, uiVars, envVars, appended, settled, sanOutput,
                   sanAgain, sideVars>>

SanitizeHTML ==
    /\ ~sanOutput.done
    /\ sanOutput' = sanitizeHTML(sanInput)
    /\ UNCHANGED <<managerVars, apiKey, uiVars, envVars, appended, settled, sanInput,
                   sanAgain, sideVars>>

NextSan ==
    \/ \E depth \in 0..(MaxNodes - 1), node \in Leaves \cup Heads :
          ParserAppend(depth, node)
    \/ ParseScenario
    \/ SanitizeHTML

SpecSan == InitSan /\ [][NextSan]_vars

\* All element nodes of a forest, at any depth.
RECURSIVE ElementsOf(_)
ElementsOf(nodes) ==
    IF nodes = <<>> THEN {}
    ELSE LET n == Head(nodes)
         IN  (IF n.nodeType = "element"
              THEN {n} \cup ElementsOf(n.childNodes)
              ELSE {})
             \cup ElementsOf(Tail(nodes))

ElementAllowListed(e) ==
    /\ ToLowerCase(e.tagName) \in DOMAIN allowedTags
    /\ \A i \in 1..Len(e.attributes) :
          /\ Includes(allowedTags[ToLowerCase(e.tagName)], e.attributes[i].name)
          /\ allowedAttributes(e.attributes[i].name, e.attributes[i].value)

(***************************************************************************)
(* C9. Allow-list closure: whenever sanitizeHTML has returned, every        *)
(* element of its result has a tag that is a key of the allowedTags table   *)
(* and every attribute of every element is in that tag's allowed list with  *)
(* a value its validator accepts.                                          *)
(***************************************************************************)
AllowListClosure ==
    (sanOutput.done /\ ~sanOutput.threw) =>
        \A e \in ElementsOf(sanOutput.nodes) : ElementAllowListed(e)

RECURSIVE FlattenedAs(_, _)
FlattenedAs(inNodes, outNodes) ==
    IF inNodes = <<>> THEN outNodes = <<>>
    ELSE LET n == Head(inNodes)
         IN  CASE n.nodeType = "comment" -> FlattenedAs(Tail(inNodes), outNodes)
               [] n.nodeType = "text" ->
                     /\ outNodes # <<>>
                     /\ Head(outNodes) = TextNode(n.data)
                     /\ FlattenedAs(Tail(inNodes), Tail(outNodes))
               [] OTHER ->
                     /\ outNodes # <<>>
                     /\ IF ToLowerCase(n.tagName) \in DOMAIN allowedTags
                        THEN /\ Head(outNodes).nodeType = "element"
                             /\ Head(outNodes).tagName = ToLowerCase(n.tagName)
                             /\ FlattenedAs(n.childNodes, Head(outNodes).childNodes)
                        ELSE Head(outNodes) = TextNode(textContent(n))
                     /\ FlattenedAs(Tail(inNodes), Tail(outNodes))

(***************************************************************************)
(* C10. Disallowed tags keep their text: whenever sanitizeHTML has returned, *)
(* its result is the input with every element whose tag is not a key of the     *)
(* allow-list replaced, in place, by one text node holding the element's    *)
(* flattened text; text nodes and allowed elements stay where they were.    *)
(***************************************************************************)
DisallowedKeepText ==
    (sanOutput.done /\ ~sanOutput.threw) =>
        /\ FlattenedAs(sanInput, sanOutput.nodes)
        /\ (sanInput = ScenarioForest
              => sanOutput.html = "<p>Hi <b>there</b></p>bad()")

\* The attributes the stated rule admits on an element named tagName: the
\* name is in the tag's list, and the value passes the rule for that name.
ValueRulePasses(name, value) ==
    \/ name = "href" /\ \E prefix \in {"http://", "https://", "#"} :
                            StartsWith(value, prefix)
    \/ name = "src" /\ \E prefix \in {"http://", "https://", "data:"} :
                           StartsWith(value, prefix)
    \/ name \in {"alt", "class"}

AdmittedAttributes(tagName, attrs) ==
    SelectSeq(attrs, LAMBDA a : /\ Includes(allowedTags[tagName], a.name)
                                /\ ValueRulePasses(a.name, a.value))

\* outNodes stands where inNodes stood, and every element of inNodes whose
\* tag is a key of the table has become an element of the same tag with
\* exactly the admitted attributes, its children treated likewise.
RECURSIVE AdmittedAs(_, _)
AdmittedAs(inNodes, outNodes) ==
    IF inNodes = <<>> THEN outNodes = <<>>
    ELSE LET n == Head(inNodes)
         IN  IF n.nodeType = "comment" THEN AdmittedAs(Tail(inNodes), outNodes)
             ELSE /\ outNodes # <<>>
                  /\ (n.nodeType = "element" /\ ToLowerCase(n.tagName) \in DOMAIN allowedTags)
                        => /\ Head(outNodes).nodeType = "element"
                           /\ Head(outNodes).tagName = ToLowerCase(n.tagName)
                           /\ Head(outNodes).attributes
                                 = AdmittedAttributes(ToLowerCase(n.tagName), n.attributes)
                           /\ AdmittedAs(n.childNodes, Head(outNodes).childNodes)
                  /\ AdmittedAs(Tail(inNodes), Tail(outNodes))

AnchorScenario ==
    <<Element("A", <<Attr("href", "javascript:alert(1)")>>, <<TextNode("x")>>)>>
ImageScenario ==
    <<Element("IMG", <<Attr("src", "https://x/y.png"), Attr("onload", "evil()")>>, <<>>)>>

(***************************************************************************)
(* C11. Attribute admission: whenever sanitizeHTML has returned, each       *)
(* element of the input whose tag is in the table has come out with exactly *)
(* those of its attributes whose name is in the tag's list and whose value  *)
(* passes the rule for that name (href: http://, https:// or #; src:        *)
(* http://, https:// or data:; alt and class: any), the element and its     *)
(* children kept; <a href="javascript:alert(1)">x</a> gives <a>x</a> and    *)
(* the img example keeps src and drops onload.                              *)
(***************************************************************************)
AttributeAdmission ==
    (sanOutput.done /\ ~sanOutput.threw) =>
        /\ AdmittedAs(sanInput, sanOutput.nodes)
        /\ (sanInput = AnchorScenario => sanOutput.html = "<a>x</a>")
        /\ (sanInput = ImageScenario
              => sanOutput.html = "<img src=\"https://x/y.png\">")

\* A span came out with its class kept and its href dropped (the name is not
\* in span's list), inside an anchor that lost its javascript: href.
AttributeAdmissionWitness ==
    /\ sanOutput.done /\ ~sanOutput.threw
    /\ sanInput =
          <<Element("A", <<Attr("href", "javascript:alert(1)")>>,
                    <<Element("SPAN", <<Attr("class", "k"), Attr("href", "#t")>>,
                              <<TextNode("x")>>)>>)>>
    /\ sanOutput.html = "<a><span class=\"k\">x</span></a>"

(***************************************************************************)
(* SpecSanTwice: sanitizeHTML called again on the string it returned.  The  *)
(* second `tempDiv.innerHTML = html` parses the serialisation of the first  *)
(* result: character references are decoded, adjacent text becomes one text *)
(* node, and text found directly inside a table is moved in front of the    *)
(* table (foster parenting).  The first result holds no raw-text element    *)
(* and nothing but text under a table, so no other parser rule applies.     *)
(***************************************************************************)
UpperChar(c) ==
    IF \E i \in 1..Len(LowerLetters) : SubSeq(LowerLetters, i, i) = c
    THEN LET i == CHOOSE j \in 1..Len(LowerLetters) : SubSeq(LowerLetters, j, j) = c
         IN  SubSeq(UpperLetters, i, i)
    ELSE c

RECURSIVE ToUpperCase(_)
ToUpperCase(s) ==
    IF s = "" THEN ""
    ELSE UpperChar(SubSeq(s, 1, 1)) \o ToUpperCase(SubSeq(s, 2, Len(s)))

\* The parser's decoding of the character references the serialiser writes.
RECURSIVE DecodeCharRefs(_)
DecodeCharRefs(s) ==
    IF s = "" THEN ""
    ELSE IF StartsWith(s, "&amp;") THEN "&" \o DecodeCharRefs(SubSeq(s, 6, Len(s)))
    ELSE IF StartsWith(s, "&lt;") THEN "<" \o DecodeCharRefs(SubSeq(s, 5, Len(s)))
    ELSE IF StartsWith(s, "&gt;") THEN ">" \o DecodeCharRefs(SubSeq(s, 5, Len(s)))
    ELSE IF StartsWith(s, "&quot;") THEN "\"" \o DecodeCharRefs(SubSeq(s, 7, Len(s)))
    ELSE SubSeq(s, 1, 1) \o DecodeCharRefs(SubSeq(s, 2, Len(s)))

\* Character data reaching the tree builder: it joins a text node that ends
\* the children so far, and empty data makes no node.
InsertText(kids, data) ==
    IF data = "" THEN kids
    ELSE IF kids # <<>> /\ kids[Len(kids)].nodeType = "text"
    THEN [kids EXCEPT ![Len(kids)] = TextNode(@.data \o data)]
    ELSE Append(kids, TextNode(data))

\* The forest `tempDiv.innerHTML = innerHTML(nodes)` builds.
RECURSIVE ParseSerialized(_)
RECURSIVE ParseInto(_, _)
ParseSerialized(nodes) == ParseInto(<<>>, nodes)

ParseInto(kids, nodes) ==
    IF nodes = <<>> THEN kids
    ELSE LET n == Head(nodes)
         IN  CASE n.nodeType = "text" ->
                    ParseInto(InsertText(kids, DecodeCharRefs(EscapeText(n.data))),
                              Tail(nodes))
               [] n.nodeType = "comment" -> ParseInto(Append(kids, n), Tail(nodes))
               [] OTHER ->
                    LET attrs == [i \in 1..Len(n.attributes) |->
                                    Attr(n.attributes[i].name,
                                         DecodeCharRefs(EscapeAttr(n.attributes[i].value)))]
                        texts == SelectSeq(n.childNodes, LAMBDA c : c.nodeType = "text")
                        others == SelectSeq(n.childNodes, LAMBDA c : c.nodeType # "text")
                    IN  IF n.tagName = "table"
                        THEN ParseInto(
                                Append(ParseInto(kids, texts),
                                       Element("TABLE", attrs, ParseSerialized(others))),
                                Tail(nodes))
                        ELSE ParseInto(
                                Append(kids,
                                       Element(ToUpperCase(n.tagName), attrs,
                                               IF n.tagName \in VoidElements THEN <<>>
                                               ELSE ParseSerialized(n.childNodes))),
                                Tail(nodes))

TwiceHeads ==
    {Element("TABLE", <<>>, <<>>),
     Element("CAPTION", <<>>, <<>>),
     Element("SPAN", <<Attr("class", "k"), Attr("href", "#t")>>, <<>>),
     Element("A", <<Attr("href", "https://x/?a=1&b=2")>>, <<>>),
     Element("DIV", <<Attr("onclick", "evil()")>>, <<>>),
     Element("CONSTRUCTOR", <<>>, <<>>)}

\* The second call: sanitizeHTML(first), for a first call that returned.
SanitizeAgain ==
    /\ sanOutput.done /\ ~sanOutput.threw
    /\ ~sanAgain.done
    /\ sanAgain' = sanitizeHTML(ParseSerialized(sanOutput.nodes))
    /\ UNCHANGED <<managerVars, apiKey, uiVars, envVars, appended, settled, sanInput,
                   sanOutput, sideVars>>

NextSanTwice ==
    \/ \E depth \in 0..(MaxNodes - 1), node \in Leaves \cup TwiceHeads :
          ParserAppend(depth, node)
    \/ SanitizeHTML
    \/ SanitizeAgain

SpecSanTwice == InitSan /\ [][NextSanTwice]_vars

(***************************************************************************)
(* C12. Sanitizer idempotence: sanitizeHTML applied to what sanitizeHTML    *)
(* returned gives that same string back.                                   *)
(***************************************************************************)
SanitizerIdempotent ==
    sanAgain.done => (~sanAgain.threw /\ sanAgain.html = sanOutput.html)

(***************************************************************************)
(* Provider calls (src/ai-services.js:84-296).  A call that passes its key  *)
(* check puts one request on the network; what comes back is an outcome:    *)
(* fetch rejects, or a response arrives with a status and a body.           *)
(***************************************************************************)
ProviderName(p) ==
    CASE p = "openai" -> "OpenAI"
      [] p = "mistral" -> "Mistral"
      [] p = "gemini" -> "Gemini"

SystemPrompt == "You are a helpful AI assistant."
TranslatePrompt == "You are a translation engine."
TestMessage == "Hello, this is a test message."

\* The turns a chat request carries: the fixed instruction, then the context
\* in the provider's role vocabulary (messages for OpenAI and Mistral,
\* contents for Gemini, whose parts[0].text is the content here).
ChatRequestBody(p, hist) ==
    LET ctx == getConversationContext(hist)
    IN  IF p = "gemini"
        THEN <<[role |-> "user", content |-> SystemPrompt]>>
             \o [i \in 1..Len(ctx) |->
                   [role |-> IF ctx[i].role = "user" THEN "user" ELSE "model",
                    content |-> ctx[i].content]]
        ELSE <<[role |-> "system", content |-> SystemPrompt]>> \o ctx

\* A slip: the translation request carries the conversation context too.
TranslateRequestBodyWithContext(p, text) ==
    ChatRequestBody(p, conversationHistory) \o <<[role |-> "user", content |-> text]>>

TranslateRequestBody(p, text) ==
    IF p = "gemini"
    THEN <<[role |-> "user", content |-> TranslatePrompt],
           [role |-> "user", content |-> text]>>
    ELSE <<[role |-> "system", content |-> TranslatePrompt],
           [role |-> "user", content |-> text]>>

\* Outcomes of one request.  errorMessage "" stands for an error body with no
\* error.message (or one that does not parse); choices is the state of the
\* reply array (choices / candidates) of a parsed success body.
NetworkError == [type |-> "reject", message |-> "Failed to fetch"]
HttpError(status, statusText, errorMessage) ==
    [type |-> "response", ok |-> FALSE, status |-> status, statusText |-> statusText,
     errorMessage |-> errorMessage]
HttpReply(content) ==
    [type |-> "response", ok |-> TRUE, choices |-> "one", content |-> content]
HttpEmptyChoices == [type |-> "response", ok |-> TRUE, choices |-> "empty", content |-> ""]
HttpNoChoices == [type |-> "response", ok |-> TRUE, choices |-> "missing", content |-> ""]
\* A success body whose first element has the message (Gemini: content) object
\* but no text in it: for Gemini, `content` without `parts`.
HttpNoParts == [type |-> "response", ok |-> TRUE, choices |-> "noparts", content |-> ""]
\* A success status with a body that is not JSON.
HttpBadJson == [type |-> "response", ok |-> TRUE, choices |-> "unparseable", content |-> ""]

Outcomes ==
    {NetworkError,
     HttpError(401, "Unauthorized", "Incorrect API key provided"),
     HttpError(500, "Internal Server Error", ""),
     HttpReply("pong"),
     HttpReply(" si "),
     HttpEmptyChoices,
     HttpNoChoices}

\* The outcomes drawn for chat and test requests.
DispatchOutcomes ==
    {NetworkError,
     HttpError(401, "Unauthorized", "Incorrect API key provided"),
     HttpReply("pong")}

Ok(value) == [ok |-> TRUE, value |-> value]
Err(message) == [ok |-> FALSE, error |-> message]

\* A non-success status whose body is the JSON text null.
HttpErrorNullBody(status, statusText) ==
    [type |-> "response", ok |-> FALSE, status |-> status, statusText |-> statusText,
     errorMessage |-> "", body |-> "null"]
NullBody(o) == "body" \in DOMAIN o /\ o.body = "null"

\* The message of the error thrown in the `!response.ok` branch:
\* `<Provider> API error: <status> - <error.message || statusText>`.  An error
\* body that cannot be parsed is read as {} and so has no message; on a body
\* that parses to null, errorData.error throws a TypeError before the message
\* is built.
ApiErrorMessage(p, o) ==
    IF NullBody(o) THEN "Cannot read properties of null (reading 'error')"
    ELSE ProviderName(p) \o " API error: " \o ToString(o.status) \o " - "
         \o (IF Truthy(o.errorMessage) THEN o.errorMessage ELSE o.statusText)

\* What reading the reply out of a success body does: response.json() on a
\* body that is not JSON throws a SyntaxError; data.choices[0] (Gemini:
\* data.candidates[0]) on a body without the array throws a TypeError; so
\* does Gemini's content?.parts[0] when content has no parts, where
\* message?.content is just undefined; an empty array or an empty content
\* gives undefined or "", which the caller replaces.
ReadReply(p, o) ==
    IF o.choices = "unparseable"
    THEN Err("Unexpected token '<', \"<html>\" is not valid JSON")
    ELSE IF o.choices = "missing"
    THEN Err("Cannot read properties of undefined (reading '0')")
    ELSE IF o.choices = "noparts"
    THEN IF p = "gemini" THEN Err("Cannot read properties of undefined (reading '0')")
         ELSE Ok("")
    ELSE IF o.choices = "empty" THEN Ok("") ELSE Ok(o.content)

\* callOpenAI / callMistral / callGemini from the response on.
callProvider(p, o) ==
    IF o.type = "thrown" THEN Err(o.message)
    ELSE IF o.type = "reject" THEN Err(o.message)
    ELSE IF ~o.ok THEN Err(ApiErrorMessage(p, o))
    ELSE LET read == ReadReply(p, o)
         IN  IF ~read.ok THEN read
             ELSE IF Truthy(read.value) THEN Ok(read.value)
             ELSE Ok("No response from " \o ProviderName(p))

\* translateText from the response on: the reply trimmed, or ''.
translateText(p, o) ==
    IF o.type = "thrown" THEN Err(o.message)
    ELSE IF o.type = "reject" THEN Err(o.message)
    ELSE IF ~o.ok THEN Err(ApiErrorMessage(p, o))
    ELSE LET read == ReadReply(p, o)
         IN  IF ~read.ok THEN read ELSE Ok(Trim(read.value))

\* The key check that opens every provider call: `if (!config.apiKey) throw`.
KeyNotConfigured(p) == ~Truthy(apiKey[p])
KeyNotConfiguredMessage(p) == ProviderName(p) \o " API key not configured"

\* A slip in the catch block of getAIResponse: the failure is recorded in the
\* history as an assistant turn and a new error is thrown.
getAIResponseRecordsFailure(hist, r, result) ==
    IF result.ok
    THEN [history |-> addToHistory(hist, Turn("assistant", result.value, r.tag)),
          result |-> result]
    ELSE [history |-> addToHistory(hist, Turn("assistant", result.error, r.tag)),
          result |-> Err("Request failed")]

\* getAIResponse from the provider call's result on: a reply is appended as
\* the assistant turn and returned; an error is logged and rethrown.
getAIResponse(hist, r, result) ==
    IF result.ok
    THEN [history |-> addToHistory(hist, Turn("assistant", result.value, r.tag)),
          result |-> result]
    ELSE [history |-> hist, result |-> result]

(***************************************************************************)
(* ChatInterface (src/unnamed/part_000).  A chat is [id, messages]; the     *)
(* chat container is the sequence of messages on display, each              *)
(* [sender, content].  Message texts are shortened: no emoji, no Markdown.  *)
(* The debounced localStorage save, the typing indicator and the section   *)
(* tabs are not part of this state; the chat titles are only in SpecTitle.  *)
(***************************************************************************)
Shown(sender, content) == [sender |-> sender, content |-> content]

\* chats.find(c => c.id === chatId): the index of the first match, or 0.
FindChat(chatList, chatId) ==
    IF \E i \in 1..Len(chatList) : chatList[i].id = chatId
    THEN CHOOSE i \in 1..Len(chatList) :
            /\ chatList[i].id = chatId
            /\ \A j \in 1..(i - 1) : chatList[j].id # chatId
    ELSE 0

\* saveMessageToChat, as addMessage calls it `if (saveToHistory && currentChatId)`.
saveMessageToChat(chatList, chatId, content, sender) ==
    LET i == FindChat(chatList, chatId)
    IN  IF chatId = 0 \/ i = 0 THEN chatList
        ELSE [chatList EXCEPT ![i].messages = Append(@, Shown(sender, content))]

\* A slip: createNewChat without `this.currentChatId = chatId`.
createNewChatKeepsCurrent(chatList) ==
    [chats |-> <<[id |-> clock, messages |-> <<>>]>> \o chatList,
     currentChatId |-> currentChatId,
     chatContainer |-> <<>>]

\* createNewChat up to and including its loadChat(chatId): the new chat is
\* put in front, made current and displayed (it has no messages).
createNewChat(chatList) ==
    [chats |-> <<[id |-> clock, messages |-> <<>>]>> \o chatList,
     currentChatId |-> clock,
     chatContainer |-> <<>>]

ClockRoom == clock < FirstChatId + MaxChats
DisplayRoom == Len(chatContainer) < MaxDisplay

\* A weaker gate: the key is only tested for truthiness, not trimmed.
ApiKeyConfiguredUntrimmed(key) == Truthy(key)

\* The gate of sendMessage and handleTranslate, negated:
\* !(!apiKey || apiKey.trim() === '').
ApiKeyConfigured(key) == Truthy(key) /\ Trim(key) # ""

ConfigureKeyMessage(p) == "Please configure your " \o p \o " API key"

\* getAIResponse up to its first await: the user turn is appended, the
\* provider is chosen by currentProvider (p), the key is checked and the
\* request is sent with the context as it then is.
Dispatch(kind, message, chat, p) ==
    LET tag == [id |-> nextReq, kind |-> kind, chat |-> chat]
        hist == addToHistory(conversationHistory, Turn("user", message, tag))
        r == [tag |-> tag, provider |-> p, message |-> message,
              startLen |-> Len(conversationHistory),
              thrown |-> IF KeyNotConfigured(p) THEN KeyNotConfiguredMessage(p) ELSE ""]
    IN  /\ nextReq <= MaxRequests
        /\ conversationHistory' = hist
        /\ appended' = Append(appended, Turn("user", message, tag))
        /\ inflight' = inflight \cup {r}
        /\ nextReq' = nextReq + 1
        /\ IF KeyNotConfigured(p)
           THEN UNCHANGED <<netCount, lastFetch>>
           ELSE /\ netCount' = netCount + 1
                /\ lastFetch' = [kind |-> kind, id |-> nextReq, provider |-> p,
                                 key |-> apiKey[p], body |-> ChatRequestBody(p, hist),
                                 snapshot |-> hist, chat |-> chat]

SavedChatLists ==
    {<<[id |-> SavedChatId,
        messages |-> <<Shown("user", "old"), Shown("ai", "older")>>]>>}

\* The state before initialize() has run; config.js may hold any key.
KeyValues == {"", " ", "sk-1"}
InitialKeys == {[p \in Providers |-> k] : k \in KeyValues}

Init ==
    /\ currentProvider = "openai"
    /\ conversationHistory = <<>>
    /\ maxHistoryLength = DefaultMaxHistoryLength
    /\ apiKey \in InitialKeys
    /\ appended = <<>>
    /\ IdleUI /\ IdleEnv /\ IdleSan

\* initialize(): loadChats, createNewChat, ensureInputReady, and the startup
\* test `if (currentProvider.config.apiKey) this.testCurrentProvider()`, which
\* runs testConnection(providerSelector.value) up to its first await.
Initialize(saved) ==
    LET created == createNewChat(saved)
        provider == IF Truthy(providerSelector) THEN providerSelector ELSE currentProvider
    IN  /\ phase = "loading"
        /\ phase' = "ready"
        /\ chats' = created.chats
        /\ currentChatId' = created.currentChatId
        /\ chatContainer' = created.chatContainer
        /\ clock' = clock + 1
        /\ isProcessing' = FALSE
        /\ messageInput' = ""
        /\ inputDisabled' = FALSE
        /\ IF Truthy(apiKey[currentProvider])
           THEN /\ sendDisabled' = TRUE
                /\ currentProvider' = setProvider(provider).currentProvider
                /\ Dispatch("test", TestMessage, created.currentChatId,
                            setProvider(provider).currentProvider)
           ELSE /\ sendDisabled' = FALSE
                /\ UNCHANGED <<currentProvider, conversationHistory, appended, inflight,
                               nextReq, netCount, lastFetch>>
        /\ UNCHANGED <<maxHistoryLength, apiKey, providerSelector, translateOutput,
                       settled, sanVars>>

\* Typing into the message box; a disabled input takes no keystrokes.
TypeMessage(value) ==
    /\ phase = "ready"
    /\ ~inputDisabled
    /\ messageInput' = value
    /\ UNCHANGED <<managerVars, apiKey, phase, isProcessing, inputDisabled, sendDisabled,
                   providerSelector, chats, currentChatId, chatContainer,
                   translateOutput, envVars, appended, settled, sanVars>>

\* sendMessage() up to its `await this.aiManager.getAIResponse(message)`.
sendMessage ==
    LET message == Trim(messageInput)
        key == apiKey[currentProvider]
    IN  IF message = "" \/ isProcessing
        THEN UNCHANGED vars
        ELSE IF ~ApiKeyConfigured(key)
        THEN /\ DisplayRoom
             /\ chatContainer' =
                    Append(chatContainer, Shown("system", ConfigureKeyMessage(currentProvider)))
             /\ UNCHANGED <<managerVars, apiKey, phase, isProcessing, messageInput,
                            inputDisabled, sendDisabled, providerSelector, chats,
                            currentChatId, translateOutput, envVars, appended,
                            settled, sanVars>>
        ELSE /\ chatContainer' = Append(chatContainer, Shown("user", message))
             /\ chats' = saveMessageToChat(chats, currentChatId, message, "user")
             /\ messageInput' = ""
             /\ inputDisabled' = TRUE
             /\ sendDisabled' = TRUE
             /\ isProcessing' = TRUE
             /\ Dispatch("chat", message, currentChatId, currentProvider)
             /\ UNCHANGED <<currentProvider, maxHistoryLength, apiKey, phase,
                            providerSelector, currentChatId, translateOutput, clock,
                            settled, sanVars>>

\* The two listeners that call sendMessage: a click on the send button (a
\* disabled button gets no click) and Enter in the message box.
SendClick == phase = "ready" /\ ~sendDisabled /\ sendMessage
EnterKey == phase = "ready" /\ ~inputDisabled /\ sendMessage

\* A slip: ensureInputReady without `this.isProcessing = false`.
WindowFocusKeepsProcessing ==
    /\ phase = "ready"
    /\ inputDisabled' = FALSE
    /\ sendDisabled' = FALSE
    /\ UNCHANGED <<managerVars, apiKey, phase, isProcessing, messageInput,
                   providerSelector, chats, currentChatId, chatContainer,
                   translateOutput, envVars, appended, settled, sanVars>>

\* ensureInputReady(), the window's focus listener.
WindowFocus ==
    /\ phase = "ready"
    /\ isProcessing' = FALSE
    /\ inputDisabled' = FALSE
    /\ sendDisabled' = FALSE
    /\ UNCHANGED <<managerVars, apiKey, phase, messageInput, providerSelector, chats,
                   currentChatId, chatContainer, translateOutput, envVars, appended,
                   settled, sanVars>>

\* createNewChat(), the New Chat button.
NewChatClick ==
    LET created == createNewChat(chats)
    IN  /\ phase = "ready"
        /\ ClockRoom
        /\ chats' = created.chats
        /\ currentChatId' = created.currentChatId
        /\ chatContainer' = created.chatContainer
        /\ clock' = clock + 1
        /\ isProcessing' = FALSE
        /\ inputDisabled' = FALSE
        /\ sendDisabled' = FALSE
        /\ messageInput' = ""
        /\ UNCHANGED <<managerVars, apiKey, phase, providerSelector, translateOutput,
                       inflight, netCount, lastFetch, nextReq, appended, settled,
                       sanVars>>

\* loadChat(chatId), a click on a chat of the list.
ChatItemClick(chatId) ==
    LET i == FindChat(chats, chatId)
    IN  /\ phase = "ready"
        /\ i # 0
        /\ currentChatId' = chatId
        /\ chatContainer' = chats[i].messages
        /\ UNCHANGED <<managerVars, apiKey, phase, isProcessing, messageInput,
                       inputDisabled, sendDisabled, providerSelector, chats,
                       translateOutput, envVars, appended, settled, sanVars>>

\* deleteChat(chatId), the delete button of a chat of the list; the click then
\* reaches the chat item's own listener, whose loadChat(chatId) finds nothing.
DeleteChatClick(chatId) ==
    LET i == FindChat(chats, chatId)
        rest == SubSeq(chats, 1, i - 1) \o SubSeq(chats, i + 1, Len(chats))
        created == createNewChat(rest)
    IN  /\ phase = "ready"
        /\ i # 0
        /\ IF chatId = currentChatId
           THEN /\ ClockRoom
                /\ chats' = created.chats
                /\ currentChatId' = created.currentChatId
                /\ chatContainer' = created.chatContainer
                /\ clock' = clock + 1
                /\ isProcessing' = FALSE
                /\ inputDisabled' = FALSE
                /\ sendDisabled' = FALSE
                /\ messageInput' = ""
           ELSE /\ chats' = rest
                /\ UNCHANGED <<currentChatId, chatContainer, clock, isProcessing,
                               inputDisabled, sendDisabled, messageInput>>
        /\ UNCHANGED <<managerVars, apiKey, phase, providerSelector, translateOutput,
                       inflight, netCount, lastFetch, nextReq, appended, settled,
                       sanVars>>

\* clearAllChats(), the Clear All button, with the user's answer to confirm().
ClearAllClick(confirmed) ==
    LET created == createNewChat(<<>>)
    IN  /\ phase = "ready"
        /\ IF ~confirmed
           THEN UNCHANGED vars
           ELSE /\ ClockRoom
                /\ chats' = created.chats
                /\ currentChatId' = created.currentChatId
                /\ chatContainer' = created.chatContainer
                /\ clock' = clock + 1
                /\ isProcessing' = FALSE
                /\ inputDisabled' = FALSE
                /\ sendDisabled' = FALSE
                /\ messageInput' = ""
                /\ UNCHANGED <<managerVars, apiKey, phase, providerSelector,
                               translateOutput, inflight, netCount, lastFetch, nextReq,
                               appended, settled, sanVars>>

\* switchAIProvider(e.target.value), the provider selector's change listener.
ProviderChange(provider) ==
    /\ phase = "ready"
    /\ providerSelector' = provider
    /\ IF setProvider(provider).result
       THEN /\ currentProvider' = setProvider(provider).currentProvider
            /\ IF ~Truthy(apiKey[provider])
               THEN /\ DisplayRoom
                    /\ chatContainer' =
                           Append(chatContainer,
                                  Shown("system", "No API key configured for " \o provider))
               ELSE UNCHANGED chatContainer
       ELSE UNCHANGED <<currentProvider, chatContainer>>
    /\ UNCHANGED <<conversationHistory, maxHistoryLength, apiKey, phase, isProcessing,
                   messageInput, inputDisabled, sendDisabled, chats, currentChatId,
                   translateOutput, envVars, appended, settled, sanVars>>

\* saveAPIKeys(), with the three fields of the settings form.
FormKeys ==
    {[p \in Providers |-> IF p = "openai" THEN " sk-1 " ELSE ""]}

SaveKeysClick(form) ==
    /\ phase = "ready"
    /\ DisplayRoom
    /\ apiKey' = [p \in Providers |-> Trim(form[p])]
    /\ chatContainer' = Append(chatContainer, Shown("system", "API keys saved locally."))
    /\ UNCHANGED <<managerVars, phase, isProcessing, messageInput, inputDisabled,
                   sendDisabled, providerSelector, chats, currentChatId, translateOutput,
                   envVars, appended, settled, sanVars>>

\* handleTranslate() up to its `await this.aiManager.translateText(...)`.
TranslateClick(source) ==
    LET p == currentProvider
        tag == [id |-> nextReq, kind |-> "translate", chat |-> currentChatId]
        r == [tag |-> tag, provider |-> p, message |-> source,
              startLen |-> Len(conversationHistory),
              thrown |-> IF KeyNotConfigured(p) THEN KeyNotConfiguredMessage(p) ELSE ""]
    IN  /\ phase = "ready"
        /\ IF Trim(source) = ""
           THEN UNCHANGED vars
           ELSE IF ~ApiKeyConfigured(apiKey[p])
           THEN /\ translateOutput' = "No API key configured for " \o p
                /\ UNCHANGED <<managerVars, apiKey, phase, isProcessing, messageInput,
                               inputDisabled, sendDisabled, providerSelector, chats,
                               currentChatId, chatContainer, envVars, appended,
                               settled, sanVars>>
           ELSE /\ nextReq <= MaxRequests
                /\ translateOutput' = "Translating..."
                /\ inflight' = inflight \cup {r}
                /\ nextReq' = nextReq + 1
                /\ IF KeyNotConfigured(p)
                   THEN UNCHANGED <<netCount, lastFetch>>
                   ELSE /\ netCount' = netCount + 1
                        /\ lastFetch' = [kind |-> "translate", id |-> nextReq,
                                         provider |-> p, key |-> apiKey[p],
                                         body |-> TranslateRequestBody(p, source),
                                         snapshot |-> <<>>, chat |-> currentChatId]
                /\ UNCHANGED <<managerVars, apiKey, phase, isProcessing, messageInput,
                               inputDisabled, sendDisabled, providerSelector, chats,
                               currentChatId, chatContainer, clock, appended, settled,
                               sanVars>>

\* What can come back for a pending call: a call whose key check threw has
\* put nothing on the network and only delivers that error.
OutcomesFor(r) ==
    IF Truthy(r.thrown) THEN {[type |-> "thrown", message |-> r.thrown]}
    ELSE IF r.tag.kind = "translate" THEN Outcomes
    ELSE DispatchOutcomes

\* sendMessage() from its await on: the reply, or the error text, is added as
\* an 'ai' message (and saved to the chat that is current now); finally the
\* input is enabled again and isProcessing is cleared.
SettleChat(r, o) ==
    LET fin == getAIResponse(conversationHistory, r, callProvider(r.provider, o))
        text == IF fin.result.ok THEN fin.result.value
                ELSE "Sorry, I encountered an error: " \o fin.result.error
    IN  /\ r \in inflight
        /\ r.tag.kind = "chat"
        /\ inflight' = inflight \ {r}
        /\ conversationHistory' = fin.history
        /\ appended' = IF fin.history = conversationHistory THEN appended
                       ELSE Append(appended, fin.history[Len(fin.history)])
        /\ chatContainer' = Append(chatContainer, Shown("ai", text))
        /\ chats' = saveMessageToChat(chats, currentChatId, text, "ai")
        /\ inputDisabled' = FALSE
        /\ sendDisabled' = FALSE
        /\ isProcessing' = FALSE
        /\ settled' = [kind |-> "chat", req |-> r, outcome |-> o, result |-> fin.result]
        /\ UNCHANGED <<currentProvider, maxHistoryLength, apiKey, phase, messageInput,
                       providerSelector, currentChatId, translateOutput, netCount,
                       lastFetch, nextReq, clock, sanVars>>

\* testConnection() and testCurrentProvider() from the await on: the outcome
\* becomes a record, shown as a system message; finally the send button is
\* enabled again.
SettleTest(r, o) ==
    LET fin == getAIResponse(conversationHistory, r, callProvider(r.provider, o))
        text == IF fin.result.ok THEN r.provider \o " connection successful!"
                ELSE r.provider \o " connection failed: " \o fin.result.error
    IN  /\ r \in inflight
        /\ r.tag.kind = "test"
        /\ inflight' = inflight \ {r}
        /\ conversationHistory' = fin.history
        /\ appended' = IF fin.history = conversationHistory THEN appended
                       ELSE Append(appended, fin.history[Len(fin.history)])
        /\ chatContainer' = Append(chatContainer, Shown("system", text))
        /\ sendDisabled' = FALSE
        /\ settled' = [kind |-> "test", req |-> r, outcome |-> o, result |-> fin.result]
        /\ UNCHANGED <<currentProvider, maxHistoryLength, apiKey, phase, isProcessing,
                       messageInput, inputDisabled, providerSelector, chats,
                       currentChatId, translateOutput, netCount, lastFetch, nextReq,
                       clock, sanVars>>

\* A slip: a failed translation request is sent once more instead of being
\* reported.
SettleTranslateRetrying(r, o) ==
    LET result == translateText(r.provider, o)
    IN  /\ r \in inflight
        /\ r.tag.kind = "translate"
        /\ IF result.ok \/ netCount > MaxRequests
           THEN /\ inflight' = inflight \ {r}
                /\ translateOutput' = IF result.ok THEN result.value
                                      ELSE "Translation failed: " \o result.error
                /\ settled' = [kind |-> "translate", req |-> r, outcome |-> o,
                               result |-> result]
                /\ UNCHANGED netCount
           ELSE /\ netCount' = netCount + 1
                /\ UNCHANGED <<inflight, translateOutput, settled>>
        /\ UNCHANGED <<managerVars, apiKey, phase, isProcessing, messageInput,
                       inputDisabled, sendDisabled, providerSelector, chats,
                       currentChatId, chatContainer, lastFetch, nextReq,
                       clock, appended, sanVars>>

\* handleTranslate() from its await on.
SettleTranslate(r, o) ==
    LET result == translateText(r.provider, o)
    IN  /\ r \in inflight
        /\ r.tag.kind = "translate"
        /\ inflight' = inflight \ {r}
        /\ translateOutput' = IF result.ok THEN result.value
                              ELSE "Translation failed: " \o result.error
        /\ settled' = [kind |-> "translate", req |-> r, outcome |-> o, result |-> result]
        /\ UNCHANGED <<managerVars, apiKey, phase, isProcessing, messageInput,
                       inputDisabled, sendDisabled, providerSelector, chats,
                       currentChatId, chatContainer, netCount, lastFetch, nextReq,
                       clock, appended, sanVars>>

TypedValues == {" hi "}
TranslateSources == {"hola", " "}

Next ==
    \/ \E saved \in SavedChatLists : Initialize(saved)
    \/ \E value \in TypedValues : TypeMessage(value)
    \/ SendClick
    \/ EnterKey
    \/ WindowFocus
    \/ NewChatClick
    \/ \E i \in 1..Len(chats) : ChatItemClick(chats[i].id)
    \/ \E i \in 1..Len(chats) : DeleteChatClick(chats[i].id)
    \/ \E confirmed \in BOOLEAN : ClearAllClick(confirmed)
    \/ \E provider \in Providers : ProviderChange(provider)
    \/ \E form \in FormKeys : SaveKeysClick(form)
    \/ \E r \in inflight : \E o \in OutcomesFor(r) : SettleChat(r, o)
    \/ \E r \in inflight : \E o \in OutcomesFor(r) : SettleTest(r, o)

Spec == Init /\ [][Next]_vars

(***************************************************************************)
(* SpecTranslate: the translation panel on its own.  handleTranslate and    *)
(* translateText read the provider and the keys and write only the          *)
(* translation output, so they are run beside the handlers that set the     *)
(* provider and the keys.                                                  *)
(***************************************************************************)
NextTranslate ==
    \/ \E saved \in SavedChatLists : Initialize(saved)
    \/ \E provider \in Providers : ProviderChange(provider)
    \/ \E form \in FormKeys : SaveKeysClick(form)
    \/ \E source \in TranslateSources : TranslateClick(source)
    \/ \E r \in inflight : \E o \in OutcomesFor(r) : SettleTest(r, o)
    \/ \E r \in inflight : \E o \in OutcomesFor(r) : SettleTranslate(r, o)

SpecTranslate == Init /\ [][NextTranslate]_vars

(***************************************************************************)
(* Properties of the chat interface, checked under Spec.                    *)
(***************************************************************************)

\* C2. Session isolation: the history sent to the provider with a chat
\* message holds no turn that was exchanged in another chat session than the
\* one the message is sent from (the context is cleared when the user makes
\* a new chat, loads another one, deletes the current one or clears all).
SessionIsolation ==
    lastFetch.kind = "chat" =>
        \A i \in 1..Len(lastFetch.snapshot) :
            lastFetch.snapshot[i].req.kind = "chat"
                => lastFetch.snapshot[i].req.chat = lastFetch.chat

\* C3. Single in-flight request: at any moment at most one getAIResponse
\* call (a chat message or the connection test) is pending.
SingleInFlight ==
    Cardinality({r \in inflight : r.tag.kind \in {"chat", "test"}}) <= 1

\* C4. Dispatch ordering: in the sequence of appends to the history, the
\* assistant turn of a dispatch comes right after the user turn of the same
\* dispatch; no turn of another dispatch is appended between the two.
DispatchOrdering ==
    \A i \in 1..Len(appended) : \A j \in 1..Len(appended) :
        ( /\ i < j
          /\ appended[i].req.id = appended[j].req.id
          /\ appended[i].role = "user"
          /\ appended[j].role = "assistant" ) => j = i + 1

\* C5. Successful dispatch: the request goes out with a snapshot that ends
\* with the dispatch's user turn; when the call returns a reply, the user
\* turn is in the history, exactly one turn has been appended, it is the
\* assistant turn holding the string that is returned, and a dispatch that
\* started from an empty history leaves a history of length 2.
SuccessfulDispatch ==
    [][ /\ \A r \in inflight' \ inflight :
              netCount' = netCount + 1 =>
                  lastFetch'.snapshot[Len(lastFetch'.snapshot)]
                      = Turn("user", r.message, r.tag)
        /\ \A r \in inflight :
              (r \notin inflight' /\ settled'.result.ok) =>
                  /\ \E i \in 1..Len(conversationHistory') :
                        conversationHistory'[i] = Turn("user", r.message, r.tag)
                  /\ Len(conversationHistory') = Len(conversationHistory) + 1
                  /\ conversationHistory'[Len(conversationHistory')]
                        = Turn("assistant", settled'.result.value, r.tag)
                  /\ (r.startLen = 0 => Len(conversationHistory') = 2)
      ]_vars

\* C6. Dispatch atomicity on failure: when a getAIResponse call fails, the
\* failure path leaves the history as it is: the user turn appended before
\* the call is still there, no assistant turn of that call is in it, and the
\* caller gets the very error the provider call threw.
FailureKeepsUserTurn ==
    [][ \A r \in inflight :
            (r \notin inflight' /\ ~settled'.result.ok) =>
                /\ conversationHistory' = conversationHistory
                /\ \E i \in 1..Len(conversationHistory') :
                      conversationHistory'[i] = Turn("user", r.message, r.tag)
                /\ \A i \in 1..Len(conversationHistory') :
                      ~( /\ conversationHistory'[i].req.id = r.tag.id
                         /\ conversationHistory'[i].role = "assistant" )
                /\ settled'.result = callProvider(r.provider, settled'.outcome)
      ]_vars

\* A chat message has failed with a network error and a connection test with
\* a non-success status; the history holds the two user turns and nothing else.
FailureKeepsUserTurnWitness ==
    /\ settled.kind = "chat"
    /\ settled.outcome = NetworkError
    /\ settled.result = Err("Failed to fetch")
    /\ Len(conversationHistory) = 2
    /\ conversationHistory[1].role = "user"
    /\ conversationHistory[1].content = TestMessage
    /\ conversationHistory[2] = Turn("user", "hi", settled.req.tag)
    /\ inflight = {}

\* C7. Credential gate: a sendMessage that gets past its first return (a
\* message is typed, nothing is being processed) with a key that is empty
\* after trimming shows the configuration message, starts no dispatch, puts
\* nothing on the network and leaves the history alone; with any other key
\* it starts a dispatch of the typed message and a network request with that
\* key.
CredentialGate ==
    [][ ((SendClick \/ EnterKey) /\ Trim(messageInput) # "" /\ ~isProcessing) =>
            IF Trim(apiKey[currentProvider]) = ""
            THEN /\ netCount' = netCount
                 /\ inflight' = inflight
                 /\ nextReq' = nextReq
                 /\ conversationHistory' = conversationHistory
                 /\ chatContainer' =
                        Append(chatContainer,
                               Shown("system", ConfigureKeyMessage(currentProvider)))
            ELSE /\ netCount' = netCount + 1
                 /\ \E r \in inflight' \ inflight :
                        /\ r.tag.kind = "chat"
                        /\ r.message = Trim(messageInput)
                        /\ r.provider = currentProvider
                 /\ lastFetch'.kind = "chat"
                 /\ lastFetch'.key = apiKey[currentProvider]
                 /\ conversationHistory' =
                        Append(conversationHistory,
                               Turn("user", Trim(messageInput),
                                    [id |-> nextReq, kind |-> "chat",
                                     chat |-> currentChatId]))
      ]_vars

\* A send with a whitespace-only key was answered with the configuration
\* message: no chat turn is in the history and no chat request is pending.
CredentialGateWitness ==
    /\ apiKey[currentProvider] = " "
    /\ messageInput = " hi "
    /\ chatContainer = <<Shown("system", ConfigureKeyMessage(currentProvider))>>
    /\ \A i \in 1..Len(conversationHistory) : conversationHistory[i].req.kind # "chat"
    /\ \A r \in inflight : r.tag.kind # "chat"

\* C8. Configuration errors precede the network: no request of any kind
\* (chat, connection test, translation) goes out with a key that is missing
\* or blank (empty or whitespace only).
ConfigurationBeforeNetwork ==
    lastFetch.kind # "none" => Trim(lastFetch.key) # ""

(***************************************************************************)
(* SpecRender: addMessage and addSystemMessage on their own.  What          *)
(* marked.parse(content) does is outside this program: it throws, or it     *)
(* returns HTML, which `tempDiv.innerHTML = html` parses into a forest.     *)
(* A message on display is [sender, content, as, body]: as is "html" when   *)
(* innerHTML was set (body the sanitized string) and "text" when            *)
(* textContent was set (body the raw content).                             *)
(***************************************************************************)
MarkedThrows == [threw |-> TRUE, forest |-> <<>>]
MarkedGives(forest) == [threw |-> FALSE, forest |-> forest]

Displayed(sender, content, as, body) ==
    [sender |-> sender, content |-> content, as |-> as, body |-> body]

\* The body of addMessage / addSystemMessage up to appendChild: the try
\* block around marked.parse and sanitizeHTML, and its catch.
RenderContent(sender, content, marked) ==
    IF sender = "user" THEN Displayed(sender, content, "text", content)
    ELSE LET san == IF marked.threw THEN [threw |-> TRUE]
                    ELSE sanitizeHTML(marked.forest)
         IN  IF san.threw
             THEN Displayed(sender, content, "text", content)
             ELSE Displayed(sender, content, "html", san.html)

\* A slip: no try/catch around the rendering, so the error leaves the
\* method before anything is appended or saved.
addMessageNoCatch(container, chatList, chatId, content, sender, saveToHistory, marked) ==
    IF sender # "user" /\ (marked.threw \/ sanitizeHTML(marked.forest).threw)
    THEN [threw |-> TRUE, chatContainer |-> container, chats |-> chatList]
    ELSE [threw |-> FALSE,
          chatContainer |-> Append(container, RenderContent(sender, content, marked)),
          chats |-> IF saveToHistory /\ chatId # 0
                    THEN saveMessageToChat(chatList, chatId, content, sender)
                    ELSE chatList]

\* addMessage(content, sender, saveToHistory); addSystemMessage(content) is
\* the same with sender "system" and nothing saved.
addMessage(container, chatList, chatId, content, sender, saveToHistory, marked) ==
    [threw |-> FALSE,
     chatContainer |-> Append(container, RenderContent(sender, content, marked)),
     chats |-> IF saveToHistory /\ chatId # 0
               THEN saveMessageToChat(chatList, chatId, content, sender)
               ELSE chatList]

RawContent == "**raw** <text>"

RenderHeads ==
    {Element("P", <<>>, <<>>),
     Element("SCRIPT", <<Attr("onerror", "evil()")>>, <<>>),
     Element("CONSTRUCTOR", <<Attr("class", "k")>>, <<>>)}

\* The interface after initialize() with no key configured: one empty chat.
InitRender ==
    /\ currentProvider = "openai"
    /\ conversationHistory = <<>>
    /\ maxHistoryLength = DefaultMaxHistoryLength
    /\ apiKey = [p \in Providers |-> ""]
    /\ appended = <<>>
    /\ phase = "ready"
    /\ isProcessing = FALSE
    /\ messageInput = ""
    /\ inputDisabled = FALSE
    /\ sendDisabled = FALSE
    /\ providerSelector = "openai"
    /\ chats = <<[id |-> FirstChatId, messages |-> <<>>]>>
    /\ currentChatId = FirstChatId
    /\ chatContainer = <<>>
    /\ translateOutput = ""
    /\ inflight = {}
    /\ netCount = 0
    /\ lastFetch = [kind |-> "none"]
    /\ nextReq = 1
    /\ clock = FirstChatId + 1
    /\ settled = [kind |-> "none"]
    /\ IdleSan

\* One call of addMessage (sender "ai" or "user") or addSystemMessage, with
\* marked.parse throwing or giving the forest built so far.
AddMessage(sender, saveToHistory, markedThrows) ==
    LET marked == IF markedThrows THEN MarkedThrows ELSE MarkedGives(sanInput)
        r == addMessage(chatContainer, chats, currentChatId, RawContent, sender,
                        saveToHistory, marked)
    IN  /\ DisplayRoom
        /\ sender = "system" => ~saveToHistory
        /\ chatContainer' = r.chatContainer
        /\ chats' = r.chats
        /\ settled' = [kind |-> "render", sender |-> sender, content |-> RawContent,
                       saveToHistory |-> saveToHistory, marked |-> marked,
                       threw |-> r.threw]
        /\ UNCHANGED <<managerVars, apiKey, phase, isProcessing, messageInput,
                       inputDisabled, sendDisabled, providerSelector, currentChatId,
                       translateOutput, envVars, appended, sanVars>>

NextRender ==
    \/ \E depth \in 0..(MaxNodes - 1), node \in Leaves \cup RenderHeads :
          chatContainer = <<>> /\ ParserAppend(depth, node)
    \/ \E sender \in {"ai", "user", "system"}, saveToHistory \in BOOLEAN,
          markedThrows \in BOOLEAN :
          AddMessage(sender, saveToHistory, markedThrows)

SpecRender == InitRender /\ [][NextRender]_vars

RenderFailed ==
    /\ settled.kind = "render"
    /\ settled.sender \in {"ai", "system"}
    /\ (settled.marked.threw \/ sanitizeHTML(settled.marked.forest).threw)

(***************************************************************************)
(* C13. Render fallback: when marked.parse or sanitizeHTML throws for an    *)
(* assistant or system message, the method still returns normally, the      *)
(* message is the last one on display, shown as plain text holding the raw  *)
(* content, and addMessage with saving on has stored it in the current      *)
(* chat.                                                                   *)
(***************************************************************************)
RenderFallback ==
    RenderFailed =>
        /\ ~settled.threw
        /\ chatContainer # <<>>
        /\ chatContainer[Len(chatContainer)]
             = Displayed(settled.sender, settled.content, "text", settled.content)
        /\ settled.saveToHistory =>
              LET saved == chats[FindChat(chats, currentChatId)].messages
              IN  /\ saved # <<>>
                  /\ saved[Len(saved)] = Shown(settled.sender, settled.content)

\* marked.parse returned, sanitizeHTML threw on <constructor class="k">, and
\* the assistant message was shown as text and saved.
RenderFallbackWitness ==
    /\ RenderFailed
    /\ settled.sender = "ai"
    /\ ~settled.marked.threw
    /\ settled.saveToHistory
    /\ chatContainer = <<Displayed("ai", RawContent, "text", RawContent)>>
    /\ chats[1].messages = <<Shown("ai", RawContent)>>

(***************************************************************************)
(* SpecManager: getAIResponse and testConnection called on the manager      *)
(* itself, up to MaxRequests calls, which may overlap.  Every pending call  *)
(* remembers the provider its switch chose and, for testConnection, the     *)
(* testProvider it was given.  "" as the argument of testConnection stands  *)
(* for the default null.                                                    *)
(***************************************************************************)
ManagerKeys == {[p \in Providers |-> k] : k \in {"", "sk-1"}}
ManagerCapacities == {1, DefaultMaxHistoryLength}
ManagerOutcomes ==
    Outcomes \cup {HttpNoParts, HttpBadJson, HttpErrorNullBody(502, "Bad Gateway")}
TestArguments == {"", "claude"} \cup Providers
CallMessages == {"hi"}

InitManager ==
    /\ currentProvider = "openai"
    /\ conversationHistory = <<>>
    /\ maxHistoryLength \in ManagerCapacities
    /\ apiKey \in ManagerKeys
    /\ appended = <<>>
    /\ IdleUI /\ IdleEnv /\ IdleSan

\* A slip: testConnection without its try/catch.
testConnectionNoCatch(testProvider, result) ==
    IF result.ok
    THEN [threw |-> FALSE,
          value |-> [success |-> TRUE, provider |-> testProvider,
                     response |-> result.value]]
    ELSE [threw |-> TRUE, error |-> result.error]

\* testConnection from the result of its getAIResponse on: the record it
\* returns, and whether it threw.
testConnection(testProvider, result) ==
    IF result.ok
    THEN [threw |-> FALSE,
          value |-> [success |-> TRUE, provider |-> testProvider,
                     response |-> result.value]]
    ELSE [threw |-> FALSE,
          value |-> [success |-> FALSE, provider |-> testProvider,
                     error |-> result.error]]

\* getAIResponse up to its first await, called on the manager: the user turn
\* is appended, the switch picks the call of provider p, the key is checked
\* and the request is sent.
ManagerCall(kind, message, testProvider, p) ==
    LET tag == [id |-> nextReq, kind |-> kind, chat |-> 0]
        hist == addToHistory(conversationHistory, Turn("user", message, tag))
        r == [tag |-> tag, provider |-> p, message |-> message,
              startLen |-> Len(conversationHistory), testProvider |-> testProvider,
              thrown |-> IF KeyNotConfigured(p) THEN KeyNotConfiguredMessage(p) ELSE ""]
    IN  /\ nextReq <= MaxRequests
        /\ conversationHistory' = hist
        /\ appended' = Append(appended, Turn("user", message, tag))
        /\ inflight' = inflight \cup {r}
        /\ nextReq' = nextReq + 1
        /\ IF KeyNotConfigured(p)
           THEN UNCHANGED <<netCount, lastFetch>>
           ELSE /\ netCount' = netCount + 1
                /\ lastFetch' = [kind |-> kind, id |-> nextReq, provider |-> p,
                                 key |-> apiKey[p], body |-> ChatRequestBody(p, hist),
                                 snapshot |-> hist, chat |-> 0]
        /\ UNCHANGED <<maxHistoryLength, apiKey, uiVars, clock, settled, sanVars>>

GetAIResponse(message) ==
    /\ ManagerCall("call", message, "", currentProvider)
    /\ UNCHANGED currentProvider

\* testConnection(provider) up to the await: provider || currentProvider,
\* setProvider (whose result is ignored), then getAIResponse(testMessage).
TestConnection(provider) ==
    LET testProvider == IF Truthy(provider) THEN provider ELSE currentProvider
        p == setProvider(testProvider).currentProvider
    IN  /\ ManagerCall("test", TestMessage, testProvider, p)
        /\ currentProvider' = p

ManagerOutcomesFor(r) ==
    IF Truthy(r.thrown) THEN {[type |-> "thrown", message |-> r.thrown]}
    ELSE ManagerOutcomes

\* The rest of getAIResponse, shared by both settle actions.
ManagerSettle(r, o, fin) ==
    /\ r \in inflight
    /\ inflight' = inflight \ {r}
    /\ conversationHistory' = fin.history
    /\ appended' = IF fin.history = conversationHistory THEN appended
                   ELSE Append(appended, fin.history[Len(fin.history)])
    /\ UNCHANGED <<currentProvider, maxHistoryLength, apiKey, uiVars, netCount,
                   lastFetch, nextReq, clock, sanVars>>

\* getAIResponse from its await on, for a direct call.
SettleGetAIResponse(r, o) ==
    LET fin == getAIResponse(conversationHistory, r, callProvider(r.provider, o))
    IN  /\ r.tag.kind = "call"
        /\ ManagerSettle(r, o, fin)
        /\ settled' = [kind |-> "getAIResponse", req |-> r, outcome |-> o,
                       result |-> fin.result]

\* testConnection from its await on.
SettleTestConnection(r, o) ==
    LET fin == getAIResponse(conversationHistory, r, callProvider(r.provider, o))
    IN  /\ r.tag.kind = "test"
        /\ ManagerSettle(r, o, fin)
        /\ settled' = [kind |-> "testConnection", req |-> r, outcome |-> o,
                       result |-> fin.result,
                       returned |-> testConnection(r.testProvider, fin.result)]

NextManager ==
    \/ \E message \in CallMessages : GetAIResponse(message)
    \/ \E provider \in TestArguments : TestConnection(provider)
    \/ \E r \in inflight : \E o \in ManagerOutcomesFor(r) : SettleGetAIResponse(r, o)
    \/ \E r \in inflight : \E o \in ManagerOutcomesFor(r) : SettleTestConnection(r, o)

SpecManager == InitManager /\ [][NextManager]_vars

(***************************************************************************)
(* C16. testConnection never throws: whatever the probe meets (no key, a    *)
(* rejected fetch, a non-success status, a success body that is not JSON or *)
(* has no reply array, a provider id that is not known) it returns a        *)
(* record; on a reply the record has success true and the reply, otherwise  *)
(* success false and the message of the error met.                          *)
(***************************************************************************)
TestConnectionNeverThrows ==
    settled.kind = "testConnection" =>
        LET o == settled.outcome
            p == settled.req.provider
            ret == settled.returned
        IN  /\ ~ret.threw
            /\ ret.value.provider = settled.req.testProvider
            /\ o.type = "thrown" =>
                  /\ ~ret.value.success
                  /\ ret.value.error = ProviderName(p) \o " API key not configured"
            /\ o.type = "reject" =>
                  ~ret.value.success /\ ret.value.error = o.message
            /\ (o.type = "response" /\ ~o.ok) =>
                  ~ret.value.success /\ ret.value.error = settled.result.error
            /\ (o.type = "response" /\ o.ok /\ o.choices \in {"unparseable", "missing"}) =>
                  ~ret.value.success /\ ret.value.error = settled.result.error
            /\ (o.type = "response" /\ o.ok /\ o.choices = "one" /\ o.content # "") =>
                  ret.value.success /\ ret.value.response = o.content
            /\ ret.value.success <=> settled.result.ok

\* testConnection('claude') met a success status with a body that is not
\* JSON and returned a failure record.
TestConnectionNeverThrowsWitness ==
    /\ settled.kind = "testConnection"
    /\ settled.req.testProvider = "claude"
    /\ settled.outcome = HttpBadJson
    /\ ~settled.returned.threw
    /\ ~settled.returned.value.success
    /\ settled.returned.value.provider = "claude"

(***************************************************************************)
(* C17. testConnection makes one ordinary dispatch of the canned probe      *)
(* against the real history: the call appends the probe as a user turn      *)
(* (evicting from the front past the capacity), takes one request number    *)
(* and sends at most one request, which carries the real history; when it   *)
(* returns with success the reply has been appended as an assistant turn    *)
(* in the same way, and when it returns with a failure the history is left  *)
(* as it was, probe included.  Nothing is sent or numbered on return.       *)
(***************************************************************************)
ProbeUsesRealHistory ==
    [][ /\ \A a \in TestArguments :
              TestConnection(a) =>
                  /\ getConversationContext(conversationHistory')
                       = Slice(Append(getConversationContext(conversationHistory),
                                      [role |-> "user", content |-> TestMessage]),
                               0 - maxHistoryLength)
                  /\ nextReq' = nextReq + 1
                  /\ netCount' \in {netCount, netCount + 1}
                  /\ netCount' = netCount + 1 =>
                        lastFetch'.snapshot = conversationHistory'
        /\ \A r \in inflight : \A o \in ManagerOutcomesFor(r) :
              SettleTestConnection(r, o) =>
                  /\ nextReq' = nextReq
                  /\ netCount' = netCount
                  /\ getConversationContext(conversationHistory')
                       = IF settled'.returned.value.success
                         THEN Slice(Append(getConversationContext(conversationHistory),
                                           [role |-> "assistant",
                                            content |-> settled'.returned.value.response]),
                                    0 - maxHistoryLength)
                         ELSE getConversationContext(conversationHistory)
      ]_vars

\* After an ordinary exchange, a successful probe has left its two turns in
\* the history behind the exchange.
ProbeUsesRealHistoryWitness ==
    /\ settled.kind = "testConnection"
    /\ settled.returned.value.success
    /\ getConversationContext(conversationHistory)
         = <<[role |-> "user", content |-> "hi"],
             [role |-> "assistant", content |-> "pong"],
             [role |-> "user", content |-> TestMessage],
             [role |-> "assistant", content |-> "pong"]>>

(***************************************************************************)
(* C19. Sentinel reply: a success status whose body parses but holds no     *)
(* usable reply (no reply array, an empty one, or a first element without   *)
(* reply text) does not make the call throw; the call returns               *)
(* "No response from <Provider>", and getAIResponse has appended that       *)
(* string as the assistant turn of the dispatch.                            *)
(***************************************************************************)
SentinelReply ==
    (/\ settled.kind \in {"getAIResponse", "testConnection"}
     /\ settled.outcome.type = "response"
     /\ settled.outcome.ok
     /\ \/ settled.outcome.choices \in {"missing", "empty", "noparts"}
        \/ settled.outcome.choices = "one" /\ settled.outcome.content = "")
    => LET placeholder == "No response from " \o ProviderName(settled.req.provider)
       IN  /\ settled.result.ok
           /\ settled.result.value = placeholder
           /\ \E i \in 1..Len(appended) :
                 appended[i] = Turn("assistant", placeholder, settled.req.tag)

(***************************************************************************)
(* C20. Provider error message: a call answered with a non-success status   *)
(* fails, with the message "<Provider> API error: <status> - <text>", where *)
(* <text> is the message of the error body when it has one and the status   *)
(* text when it has none or cannot be parsed; no reply is returned and no   *)
(* assistant turn is appended for the dispatch.                             *)
(***************************************************************************)
ProviderErrorMessage ==
    (/\ settled.kind \in {"getAIResponse", "testConnection"}
     /\ settled.outcome.type = "response"
     /\ ~settled.outcome.ok)
    => LET o == settled.outcome
       IN  /\ ~settled.result.ok
           /\ settled.result.error
                = ProviderName(settled.req.provider) \o " API error: "
                  \o ToString(o.status) \o " - "
                  \o (IF o.errorMessage # "" THEN o.errorMessage ELSE o.statusText)
           /\ \A i \in 1..Len(appended) :
                 ~(appended[i].role = "assistant" /\ appended[i].req = settled.req.tag)

(***************************************************************************)
(* SpecTitle: sendMessage with the chat titles in the state.  A chat is     *)
(* here [id, title, messages]; createNewChat gives the title 'New Chat'.    *)
(* Two chats exist: a new one, which is current, and a saved one.  Chats    *)
(* can be switched and the window can regain focus while a reply is         *)
(* pending.                                                                 *)
(***************************************************************************)
NewChatTitle == "New Chat"
LongMessage == "Please explain monads in simple terms"
TitleValues == {"hi", LongMessage}

\* String.prototype.substring(0, n).
Substring0(str, n) == SubSeq(str, 1, Min(n, Len(str)))

\* updateChatTitle(firstMessage): the list of chats after it.
updateChatTitle(chatList, chatId, firstMessage) ==
    LET i == FindChat(chatList, chatId)
    IN  IF chatId = 0 THEN chatList
        ELSE IF i # 0 /\ Len(chatList[i].messages) = 1
        THEN [chatList EXCEPT
                ![i].title = Substring0(firstMessage, 30)
                             \o (IF Len(firstMessage) > 30 THEN "..." ELSE "")]
        ELSE chatList

InitTitle ==
    /\ currentProvider = "openai"
    /\ conversationHistory = <<>>
    /\ maxHistoryLength = DefaultMaxHistoryLength
    /\ apiKey = [p \in Providers |-> "sk-1"]
    /\ appended = <<>>
    /\ phase = "ready"
    /\ isProcessing = FALSE
    /\ messageInput = ""
    /\ inputDisabled = FALSE
    /\ sendDisabled = FALSE
    /\ providerSelector = "openai"
    /\ chats = <<[id |-> FirstChatId, title |-> NewChatTitle, messages |-> <<>>],
                 [id |-> SavedChatId, title |-> "old",
                  messages |-> <<Shown("user", "old"), Shown("ai", "older")>>]>>
    /\ currentChatId = FirstChatId
    /\ chatContainer = <<>>
    /\ translateOutput = ""
    /\ inflight = {}
    /\ netCount = 0
    /\ lastFetch = [kind |-> "none"]
    /\ nextReq = 1
    /\ clock = FirstChatId + 1
    /\ settled = [kind |-> "none"]
    /\ IdleSan

\* sendMessage() from its await to its end: the reply or the error text is
\* added as an 'ai' message and saved to the current chat, the input is
\* enabled again, and updateChatTitle(message) runs last.
SettleChatTitled(r, o) ==
    LET fin == getAIResponse(conversationHistory, r, callProvider(r.provider, o))
        text == IF fin.result.ok THEN fin.result.value
                ELSE "Sorry, I encountered an error: " \o fin.result.error
    IN  /\ r \in inflight
        /\ r.tag.kind = "chat"
        /\ inflight' = inflight \ {r}
        /\ conversationHistory' = fin.history
        /\ appended' = IF fin.history = conversationHistory THEN appended
                       ELSE Append(appended, fin.history[Len(fin.history)])
        /\ chatContainer' = Append(chatContainer, Shown("ai", text))
        /\ chats' = updateChatTitle(saveMessageToChat(chats, currentChatId, text, "ai"),
                                    currentChatId, r.message)
        /\ inputDisabled' = FALSE
        /\ sendDisabled' = FALSE
        /\ isProcessing' = FALSE
        /\ settled' = [kind |-> "chat", req |-> r, outcome |-> o, result |-> fin.result]
        /\ UNCHANGED <<currentProvider, maxHistoryLength, apiKey, phase, messageInput,
                       providerSelector, currentChatId, translateOutput, netCount,
                       lastFetch, nextReq, clock, sanVars>>

NextTitle ==
    \/ \E value \in TitleValues : TypeMessage(value)
    \/ SendClick
    \/ WindowFocus
    \/ \E i \in 1..Len(chats) : ChatItemClick(chats[i].id)
    \/ \E r \in inflight : \E o \in OutcomesFor(r) : SettleChatTitled(r, o)

SpecTitle == InitTitle /\ [][NextTitle]_vars

(***************************************************************************)
(* C18. Title assignment: when sendMessage ends with a reply, and it is the *)
(* first reply in the chat the message was sent in, that chat's title is    *)
(* the first 30 characters of the user message, followed by "..." exactly   *)
(* when the message is longer than 30 characters; when the chat has had a   *)
(* reply before, its title is not changed.                                  *)
(***************************************************************************)
TitleAssignment ==
    [][ \A r \in inflight : \A o \in OutcomesFor(r) :
            (SettleChatTitled(r, o) /\ settled'.result.ok) =>
                LET before == FindChat(chats, r.tag.chat)
                    after == FindChat(chats', r.tag.chat)
                    first == ~\E k \in 1..Len(appended) :
                                 /\ appended[k].role = "assistant"
                                 /\ appended[k].req.chat = r.tag.chat
                IN  /\ after # 0
                    /\ IF first
                       THEN chats'[after].title
                              = SubSeq(r.message, 1, Min(30, Len(r.message)))
                                \o (IF Len(r.message) > 30 THEN "..." ELSE "")
                       ELSE chats'[after].title = chats[before].title
      ]_vars

(***************************************************************************)
(* C21. Translation is stateless: the request translateText sends holds     *)
(* the translation instruction and the given text and nothing else, and     *)
(* neither the call nor its return, with a result or with an error,         *)
(* changes the conversation history or the active provider.                 *)
(***************************************************************************)
TranslationStateless ==
    [][ /\ \A source \in TranslateSources :
              TranslateClick(source) =>
                  /\ UNCHANGED <<currentProvider, conversationHistory, maxHistoryLength>>
                  /\ appended' = appended
                  /\ netCount' = netCount + 1 =>
                        /\ lastFetch'.kind = "translate"
                        /\ Len(lastFetch'.body) = 2
                        /\ lastFetch'.body[1].content = TranslatePrompt
                        /\ lastFetch'.body[2] = [role |-> "user", content |-> source]
        /\ \A r \in inflight : \A o \in OutcomesFor(r) :
              SettleTranslate(r, o) =>
                  /\ UNCHANGED <<currentProvider, conversationHistory, maxHistoryLength>>
                  /\ appended' = appended
      ]_vars

\* A translation has failed while the history held turns: they are still
\* there and the request that was sent held two entries.
TranslationStatelessWitness ==
    /\ settled.kind = "translate"
    /\ ~settled.result.ok
    /\ settled.outcome.type = "response"
    /\ conversationHistory # <<>>
    /\ lastFetch.kind = "translate"
    /\ Len(lastFetch.body) = 2

(***************************************************************************)
(* C22. No retry: a call of getAIResponse or translateText puts at most one *)
(* request on the network, when it is made; when the call returns, with a   *)
(* reply or with a failure, nothing more is sent for it, the call is no     *)
(* longer pending, and a failure of the request is what the caller gets.    *)
(***************************************************************************)
NoRetry ==
    [][ /\ netCount' - netCount <= nextReq' - nextReq
        /\ \A r \in inflight : \A o \in OutcomesFor(r) :
              (SettleTest(r, o) \/ SettleTranslate(r, o)) =>
                  /\ netCount' = netCount
                  /\ nextReq' = nextReq
                  /\ inflight' = inflight \ {r}
                  /\ settled'.req = r
                  /\ (o.type \in {"thrown", "reject"} \/ ~o.ok) => ~settled'.result.ok
      ]_vars

\* One translation was requested, the fetch was rejected, and that was
\* reported with one request sent in all.
NoRetryWitness ==
    /\ settled.kind = "translate"
    /\ settled.outcome = NetworkError
    /\ ~settled.result.ok
    /\ translateOutput = "Translation failed: Failed to fetch"
    /\ netCount = 1
    /\ inflight = {}

(***************************************************************************)
(* SpecErrors: sendMessage and handleTranslate side by side, started from   *)
(* a ready interface with one empty chat and any of the initial keys.       *)
(***************************************************************************)
InitErrors ==
    /\ currentProvider = "openai"
    /\ conversationHistory = <<>>
    /\ maxHistoryLength = DefaultMaxHistoryLength
    /\ apiKey \in InitialKeys
    /\ appended = <<>>
    /\ phase = "ready"
    /\ isProcessing = FALSE
    /\ messageInput = ""
    /\ inputDisabled = FALSE
    /\ sendDisabled = FALSE
    /\ providerSelector = "openai"
    /\ chats = <<[id |-> FirstChatId, messages |-> <<>>]>>
    /\ currentChatId = FirstChatId
    /\ chatContainer = <<>>
    /\ translateOutput = ""
    /\ inflight = {}
    /\ netCount = 0
    /\ lastFetch = [kind |-> "none"]
    /\ nextReq = 1
    /\ clock = FirstChatId + 1
    /\ settled = [kind |-> "none"]
    /\ IdleSan

NextErrors ==
    \/ \E value \in TypedValues : TypeMessage(value)
    \/ SendClick
    \/ EnterKey
    \/ \E source \in TranslateSources : TranslateClick(source)
    \/ \E r \in inflight : \E o \in OutcomesFor(r) : SettleChat(r, o)
    \/ \E r \in inflight : \E o \in OutcomesFor(r) : SettleTranslate(r, o)

SpecErrors == InitErrors /\ [][NextErrors]_vars

(***************************************************************************)
(* C23. Errors are never swallowed: a send or a translation stopped by the  *)
(* key gate leaves a message naming the provider (a system message in the   *)
(* chat, or the translation output); a send whose request fails ends with   *)
(* an 'ai' message on display that holds the error's message; a             *)
(* translation whose request fails ends with the translation output holding *)
(* the error's message.                                                    *)
(***************************************************************************)
ErrorsSurface ==
    [][ /\ ((SendClick \/ EnterKey)
              /\ Trim(messageInput) # "" /\ ~isProcessing
              /\ (apiKey[currentProvider] = "" \/ Trim(apiKey[currentProvider]) = ""))
           => /\ chatContainer' # <<>>
              /\ chatContainer'[Len(chatContainer')]
                   = Shown("system",
                           "Please configure your " \o currentProvider \o " API key")
        /\ \A source \in TranslateSources :
              (TranslateClick(source) /\ Trim(source) # ""
                 /\ (apiKey[currentProvider] = "" \/ Trim(apiKey[currentProvider]) = ""))
              => translateOutput' = "No API key configured for " \o currentProvider
        /\ \A r \in inflight : \A o \in OutcomesFor(r) :
              (SettleChat(r, o) /\ (o.type \in {"thrown", "reject"} \/ ~o.ok))
              => /\ chatContainer' # <<>>
                 /\ chatContainer'[Len(chatContainer')].sender = "ai"
                 /\ StartsWith(chatContainer'[Len(chatContainer')].content,
                               "Sorry, I encountered an error: ")
                 /\ settled'.result.error # ""
                 /\ o.type = "reject" => settled'.result.error = o.message
                 /\ chatContainer'[Len(chatContainer')]
                      = Shown("ai", "Sorry, I encountered an error: "
                                    \o settled'.result.error)
        /\ \A r \in inflight : \A o \in OutcomesFor(r) :
              (SettleTranslate(r, o) /\ (o.type \in {"thrown", "reject"} \/ ~o.ok))
              => /\ StartsWith(translateOutput', "Translation failed: ")
                 /\ settled'.result.error # ""
                 /\ o.type = "reject" => settled'.result.error = o.message
                 /\ translateOutput' = "Translation failed: " \o settled'.result.error
      ]_vars

\* A send was answered 401 and the chat shows the provider's message.
ErrorsSurfaceWitness ==
    /\ settled.kind = "chat"
    /\ settled.outcome = HttpError(401, "Unauthorized", "Incorrect API key provided")
    /\ chatContainer # <<>>
    /\ chatContainer[Len(chatContainer)]
         = Shown("ai", "Sorry, I encountered an error: "
                       \o "OpenAI API error: 401 - Incorrect API key provided")

(***************************************************************************)
(* C24. Input is re-enabled: after a confirmed Clear All, after a focus     *)
(* event of the window, and after a sendMessage whose request has resolved  *)
(* or rejected, the message input and the send button are enabled and       *)
(* isProcessing is false, whatever they were before and whether or not a    *)
(* request is still pending.                                                *)
(***************************************************************************)
InputReenabled ==
    [][ (\/ ClearAllClick(TRUE)
         \/ WindowFocus
         \/ \E r \in inflight : \E o \in OutcomesFor(r) : SettleChat(r, o))
        => (~inputDisabled' /\ ~sendDisabled' /\ ~isProcessing')
      ]_vars

\* A chat request is pending, and the input is enabled and the interface
\* not processing.
InputReenabledWitness ==
    /\ \E r \in inflight : r.tag.kind = "chat"
    /\ ~inputDisabled
    /\ ~sendDisabled
    /\ ~isProcessing

(***************************************************************************)
(* SpecSave: the chat list, its debounced save and its reload.  Every       *)
(* handler that changes this.chats ends in saveChats(); the timer it sets   *)
(* writes JSON.stringify(this.chats) when it fires.  Reload is the page     *)
(* being loaded again: pending timers are gone, initialize() runs           *)
(* loadChats() and then createNewChat().  JSON text is a sequence of        *)
(* tokens; a string or number value is a token of its own kind, so no value *)
(* can be taken for punctuation.  The title and the time stamps of a chat   *)
(* are strings saved like its id and are left out.                          *)
(***************************************************************************)
NoItem == [item |-> "null"]
Item(text) == [item |-> "string", text |-> text]
Value(v) == [value |-> v]

RECURSIVE StringifyMessages(_)
StringifyMessages(messages) ==
    IF messages = <<>> THEN <<>>
    ELSE <<"{", "content", Value(messages[1].content),
           "sender", Value(messages[1].sender), "}">>
         \o StringifyMessages(Tail(messages))

\* JSON.stringify(this.chats)
RECURSIVE Stringify(_)
Stringify(chatList) ==
    IF chatList = <<>> THEN <<>>
    ELSE <<"{", "id", Value(chatList[1].id), "messages", "[">>
         \o StringifyMessages(chatList[1].messages) \o <<"]", "}">>
         \o Stringify(Tail(chatList))

\* JSON.parse of the messages of one chat: the messages read and the tokens
\* behind the closing bracket.
RECURSIVE ParseMessages(_, _)
ParseMessages(tokens, read) ==
    IF tokens[1] = "]" THEN [messages |-> read, rest |-> Tail(tokens)]
    ELSE ParseMessages(SubSeq(tokens, 7, Len(tokens)),
                       Append(read, Shown(tokens[5].value, tokens[3].value)))

\* JSON.parse of what Stringify wrote.
RECURSIVE Parse(_)
Parse(tokens) ==
    IF tokens = <<>> THEN <<>>
    ELSE LET inner == ParseMessages(SubSeq(tokens, 6, Len(tokens)), <<>>)
         IN  <<[id |-> tokens[3].value, messages |-> inner.messages]>>
             \o Parse(Tail(inner.rest))

\* loadChats(): this.chats is [] before it, and stays so without an item.
loadChats(stored) == IF stored.item = "null" THEN <<>> ELSE Parse(stored.text)

\* setTimeout: an id no pending timer has.
NewTimerId(pending) ==
    CHOOSE n \in 1..(Cardinality(pending) + 1) :
        n \notin pending /\ \A k \in 1..(n - 1) : k \in pending

\* A slip: saveChats without clearTimeout.
saveChatsKeepsTimer(pending, timeout) ==
    [timers |-> pending \cup {NewTimerId(pending)}, saveTimeout |-> NewTimerId(pending)]

\* saveChats(): the pending timers and this.saveTimeout after it.
saveChats(pending, timeout) ==
    LET cleared == IF timeout # 0 THEN pending \ {timeout} ELSE pending
    IN  [timers |-> cleared \cup {NewTimerId(cleared)},
         saveTimeout |-> NewTimerId(cleared)]

InitSave ==
    /\ currentProvider = "openai"
    /\ conversationHistory = <<>>
    /\ maxHistoryLength = DefaultMaxHistoryLength
    /\ apiKey = [p \in Providers |-> ""]
    /\ appended = <<>>
    /\ IdleUI /\ IdleEnv
    /\ sanInput = <<>>
    /\ sanOutput = [done |-> FALSE]
    /\ sanAgain = [done |-> FALSE]
    /\ saveTimeout = 0
    /\ timers = {}
    /\ localStorage = NoItem
    /\ winX = StartX
    /\ winVisible = FALSE
    /\ animationFrameId = 0
    /\ animations = {}
    /\ dropZones = {}
    /\ dragCounter = [z \in Zones |-> 0]
    /\ dragOver = [z \in Zones |-> FALSE]

\* What every action of SpecSave leaves alone.
SaveFrame ==
    UNCHANGED <<managerVars, apiKey, isProcessing, messageInput, inputDisabled,
                sendDisabled, providerSelector, translateOutput, inflight, netCount,
                lastFetch, nextReq, appended, sanInput, sanOutput, sanAgain,
                localStorage, animVars, dropVars>>

Saved ==
    /\ timers' = saveChats(timers, saveTimeout).timers
    /\ saveTimeout' = saveChats(timers, saveTimeout).saveTimeout

\* The page is loaded: initialize() with loadChats() and createNewChat().
Reload ==
    LET created == createNewChat(loadChats(localStorage))
        saved == saveChats({}, 0)
    IN  /\ ClockRoom
        /\ phase' = "ready"
        /\ chats' = created.chats
        /\ currentChatId' = created.currentChatId
        /\ chatContainer' = created.chatContainer
        /\ clock' = clock + 1
        /\ timers' = saved.timers
        /\ saveTimeout' = saved.saveTimeout
        /\ settled' = [kind |-> "loaded", list |-> loadChats(localStorage),
                       stored |-> localStorage]
        /\ SaveFrame

SaveNewChat ==
    LET created == createNewChat(chats)
    IN  /\ phase = "ready"
        /\ ClockRoom
        /\ chats' = created.chats
        /\ currentChatId' = created.currentChatId
        /\ chatContainer' = created.chatContainer
        /\ clock' = clock + 1
        /\ Saved
        /\ UNCHANGED <<phase, settled>>
        /\ SaveFrame

\* addMessage(content, sender) with saving on.
SaveMessage(content, sender) ==
    LET i == FindChat(chats, currentChatId)
    IN  /\ phase = "ready"
        /\ i # 0
        /\ Len(chats[i].messages) < MaxRequests
        /\ chats' = saveMessageToChat(chats, currentChatId, content, sender)
        /\ chatContainer' = Append(chatContainer, Shown(sender, content))
        /\ Saved
        /\ UNCHANGED <<phase, currentChatId, clock, settled>>
        /\ SaveFrame

\* deleteChat(chatId)
SaveDeleteChat(chatId) ==
    LET i == FindChat(chats, chatId)
        rest == SubSeq(chats, 1, i - 1) \o SubSeq(chats, i + 1, Len(chats))
        created == createNewChat(rest)
    IN  /\ phase = "ready"
        /\ i # 0
        /\ IF chatId = currentChatId
           THEN /\ ClockRoom
                /\ chats' = created.chats
                /\ currentChatId' = created.currentChatId
                /\ chatContainer' = created.chatContainer
                /\ clock' = clock + 1
           ELSE /\ chats' = rest
                /\ UNCHANGED <<currentChatId, chatContainer, clock>>
        /\ Saved
        /\ UNCHANGED <<phase, settled>>
        /\ SaveFrame

\* clearCurrentChat()
SaveClearCurrentChat ==
    LET i == FindChat(chats, currentChatId)
    IN  /\ phase = "ready"
        /\ currentChatId # 0
        /\ i # 0
        /\ chats' = [chats EXCEPT ![i].messages = <<>>]
        /\ chatContainer' = <<Shown("system", "Chat cleared!")>>
        /\ Saved
        /\ UNCHANGED <<phase, currentChatId, clock, settled>>
        /\ SaveFrame

\* clearAllChats(), confirmed
SaveClearAllChats ==
    LET created == createNewChat(<<>>)
    IN  /\ phase = "ready"
        /\ ClockRoom
        /\ chats' = created.chats
        /\ currentChatId' = created.currentChatId
        /\ chatContainer' = created.chatContainer
        /\ clock' = clock + 1
        /\ Saved
        /\ UNCHANGED <<phase, settled>>
        /\ SaveFrame

\* The callback of the timer saveChats set.
SaveTimerFires(t) ==
    /\ t \in timers
    /\ timers' = timers \ {t}
    /\ localStorage' = Item(Stringify(chats))
    /\ settled' = [kind |-> "saved", list |-> chats]
    /\ UNCHANGED <<managerVars, apiKey, uiVars, envVars, appended, sanInput, sanOutput,
                   sanAgain, saveTimeout, animVars, dropVars>>

SaveSenders == {"user", "ai"}

NextSave ==
    \/ Reload
    \/ SaveNewChat
    \/ \E sender \in SaveSenders : SaveMessage("m", sender)
    \/ \E i \in 1..Len(chats) : SaveDeleteChat(chats[i].id)
    \/ SaveClearCurrentChat
    \/ SaveClearAllChats
    \/ \E t \in timers : SaveTimerFires(t)

SpecSave ==
    InitSave /\ [][NextSave]_vars /\ WF_vars(\E t \in timers : SaveTimerFires(t))

ReplyToOriginatingSession ==
    [][ \A r \in inflight : \A o \in OutcomesFor(r) :
            SettleChat(r, o) =>
                LET i == FindChat(chats, r.tag.chat)
                    shown == chatContainer'[Len(chatContainer')]
                IN  IF i = 0 THEN chats' = chats
                    ELSE /\ Len(chats') = Len(chats)
                         /\ chats'[i].messages = Append(chats[i].messages, shown)
                         /\ \A j \in 1..Len(chats) : j # i => chats'[j] = chats[j]
      ]_vars

(***************************************************************************)
(* SpecChats: the chat list handlers on their own, with loadChat and        *)
(* deleteChat called for ids that are in the list and for ids that are not. *)
(***************************************************************************)
ChatIds == 1..(FirstChatId + MaxChats)

NextChats ==
    \/ \E saved \in SavedChatLists \cup {<<>>} : Initialize(saved)
    \/ NewChatClick
    \/ \E chatId \in ChatIds : ChatItemClick(chatId)
    \/ \E chatId \in ChatIds : DeleteChatClick(chatId)
    \/ \E confirmed \in BOOLEAN : ClearAllClick(confirmed)
    \/ \E value \in TypedValues : TypeMessage(value)
    \/ \E r \in inflight : \E o \in OutcomesFor(r) : SettleTest(r, o)

SpecChats == Init /\ [][NextChats]_vars

(***************************************************************************)
(* C27. Current chat is always valid: once initialize has run,              *)
(* currentChatId is the id of a chat in the chat list, after any sequence   *)
(* of createNewChat, loadChat and deleteChat (for ids in the list or not)   *)
(* and clearAllChats.                                                       *)
(***************************************************************************)
CurrentChatValid ==
    phase = "ready" =>
        /\ currentChatId # 0
        /\ \E i \in 1..Len(chats) : chats[i].id = currentChatId

\* The current chat was deleted and the chat made in its place is current;
\* the saved chat is still in the list.
CurrentChatValidWitness ==
    /\ phase = "ready"
    /\ Len(chats) = 2
    /\ chats[1].id = currentChatId
    /\ currentChatId = FirstChatId + 1
    /\ chats[2].id = SavedChatId

(***************************************************************************)
(* C28. testConnection reports the provider it probed: the provider named   *)
(* in the record testConnection returns is the provider whose call          *)
(* getAIResponse made for the probe, for a known id, an unknown id and no   *)
(* id; so no success is reported under the name of a provider that was not  *)
(* contacted.                                                               *)
(***************************************************************************)
ProbeReportsProvider ==
    settled.kind = "testConnection" =>
        settled.returned.value.provider = settled.req.provider

(***************************************************************************)
(* SpecWindow: the sliding window of the main process                       *)
(* (src/file-handler.js:275-435).  An animation is [seq, from, to, hide,    *)
(* elapsed]: its place in the order of starting, its two positions, whether *)
(* it has the completion callback that hides the window, and the clock      *)
(* ticks elapsed since it started, of which AnimationTicks make up          *)
(* animationDuration.  animations holds those whose next frame is           *)
(* scheduled with setImmediate; animationFrameId is the seq of the one      *)
(* scheduled last (0 before the first).  settled records the last request.  *)
(***************************************************************************)
\* easeInOut(t) for t = k / n, as a fraction.
easeInOut(k, n) ==
    IF 2 * k < n
    THEN [num |-> 4 * k * k * k, den |-> n * n * n]
    ELSE [num |-> 2 * n * n * n - (2 * n - 2 * k) * (2 * n - 2 * k) * (2 * n - 2 * k),
          den |-> 2 * n * n * n]

\* Math.round(p / q) for q > 0: the integer nearest to it, halves going up.
Round(p, q) == (2 * p + q) \div (2 * q)

\* The x a frame of the animation sets: startPos + (endPos - startPos) * eased.
CurrentX(a) ==
    LET e == easeInOut(Min(a.elapsed, AnimationTicks), AnimationTicks)
    IN  Round(a.from * e.den + (a.to - a.from) * e.num, e.den)

\* clearTimeout(animationFrameId): the id is the Immediate object setImmediate
\* returned, which has no _onTimeout and is no timer id, so Node's
\* clearTimeout leaves it scheduled.
clearTimeout(scheduled, id) == scheduled

NextSeq(scheduled) ==
    IF scheduled = {} THEN 1
    ELSE 1 + (CHOOSE n \in {a.seq : a \in scheduled} :
                 \A a \in scheduled : a.seq <= n)

\* Only the order of starting matters: when an animation ends, the others
\* are numbered anew in their order, and a reference to an Immediate that has
\* run becomes -1.
Rank(scheduled, seq) ==
    IF \E b \in scheduled : b.seq = seq
    THEN Cardinality({b \in scheduled : b.seq <= seq})
    ELSE -1
Renumber(scheduled) ==
    {[b EXCEPT !.seq = Rank(scheduled, b.seq)] : b \in scheduled}

InitWindow ==
    /\ currentProvider = "openai"
    /\ conversationHistory = <<>>
    /\ maxHistoryLength = DefaultMaxHistoryLength
    /\ apiKey = [p \in Providers |-> ""]
    /\ appended = <<>>
    /\ IdleUI /\ IdleEnv /\ IdleSan

WindowFrame ==
    UNCHANGED <<managerVars, apiKey, uiVars, envVars, appended, sanInput, sanOutput,
                sanAgain, storeVars, dropVars>>

\* animateWindow(startPos, endPos, duration, onComplete) with its first call
\* of animate(), which finds progress 0.
animateWindow(from, to, hide) ==
    LET kept == clearTimeout(animations, animationFrameId)
        a == [seq |-> NextSeq(kept), from |-> from, to |-> to, hide |-> hide,
              elapsed |-> 0]
    IN  /\ Cardinality(animations) < MaxAnimations
        /\ winX' = CurrentX(a)
        /\ animations' = kept \cup {a}
        /\ animationFrameId' = a.seq

slideIn ==
    /\ winVisible' = TRUE
    /\ animateWindow(StartX, TargetX, FALSE)
    /\ settled' = [kind |-> "slideIn"]
    /\ WindowFrame

slideOut ==
    /\ UNCHANGED winVisible
    /\ animateWindow(TargetX, StartX, TRUE)
    /\ settled' = [kind |-> "slideOut"]
    /\ WindowFrame

\* The tray menu's Show App.
ShowApp == slideIn
\* The window's blur and close events.
WindowBlur == slideOut
\* A click on the tray icon, or Control+Space.
ToggleWindow == IF winVisible THEN slideOut ELSE slideIn

\* animate(), run by setImmediate.
AnimationFrame(a) ==
    /\ a \in animations
    /\ winX' = CurrentX(a)
    /\ IF a.elapsed < AnimationTicks
       THEN /\ animationFrameId' = a.seq
            /\ UNCHANGED <<animations, winVisible>>
       ELSE /\ animations' = Renumber(animations \ {a})
            /\ winVisible' = IF a.hide THEN FALSE ELSE winVisible
            /\ animationFrameId' = Rank(animations \ {a}, animationFrameId)
    /\ UNCHANGED settled
    /\ WindowFrame

\* Date.now() moves on.
ClockTick ==
    /\ \E a \in animations : a.elapsed < AnimationTicks
    /\ animations' = {[a EXCEPT !.elapsed = Min(a.elapsed + 1, AnimationTicks)] :
                         a \in animations}
    /\ UNCHANGED <<winX, winVisible, animationFrameId, settled>>
    /\ WindowFrame

NextWindow ==
    \/ ShowApp
    \/ WindowBlur
    \/ ToggleWindow
    \/ \E a \in animations : AnimationFrame(a)
    \/ ClockTick

SpecWindow == InitWindow /\ [][NextWindow]_vars

(***************************************************************************)
(* C29. Window slide animations supersede each other: a slide requested     *)
(* while another is running cancels it, so no two animations are scheduled  *)
(* at once, no frame (position update or completion callback) is run by an  *)
(* animation after a later one has started, and when the last request was   *)
(* slideIn and no animation is left, the window is visible at targetX.      *)
(***************************************************************************)
SlideSupersedes ==
    /\ [](Cardinality(animations) <= 1)
    /\ [][ \A a \in animations :
              AnimationFrame(a) => \A b \in animations : b.seq <= a.seq ]_vars
    /\ []((animations = {} /\ settled.kind = "slideIn")
             => (winVisible /\ winX = TargetX))

(***************************************************************************)
(* SpecDrop: the drop zones of FileHandler.createDropZone                   *)
(* (src/file-handler.js:215-265).  A zone is a target element with the      *)
(* four listeners of one call attached; each call has a counter of its own. *)
(* The DOM delivers the events to an attached zone in any order: the        *)
(* handlers do not look at what came before.  settled records the last      *)
(* event and, for a drop, the files handed to onFilesSelected.              *)
(***************************************************************************)
InitDrop ==
    /\ currentProvider = "openai"
    /\ conversationHistory = <<>>
    /\ maxHistoryLength = DefaultMaxHistoryLength
    /\ apiKey = [p \in Providers |-> ""]
    /\ appended = <<>>
    /\ IdleUI /\ IdleEnv /\ IdleSan

DropFrame ==
    UNCHANGED <<managerVars, apiKey, uiVars, envVars, appended, sanInput, sanOutput,
                sanAgain, storeVars, animVars>>

\* createDropZone(targetElement, onFilesSelected) for an element that has no
\* zone: let dragCounter = 0 and the four addEventListener calls.
createDropZone(z) ==
    /\ z \notin dropZones
    /\ dropZones' = dropZones \cup {z}
    /\ dragCounter' = [dragCounter EXCEPT ![z] = 0]
    /\ UNCHANGED dragOver
    /\ settled' = [kind |-> "createDropZone", zone |-> z]
    /\ DropFrame

\* The function createDropZone returns: the listeners and the class go.
cleanup(z) ==
    /\ z \in dropZones
    /\ dropZones' = dropZones \ {z}
    /\ dragOver' = [dragOver EXCEPT ![z] = FALSE]
    /\ UNCHANGED dragCounter
    /\ settled' = [kind |-> "cleanup", zone |-> z]
    /\ DropFrame

\* dragover: preventDefault and stopPropagation only.
handleDrag(z) ==
    /\ z \in dropZones
    /\ UNCHANGED <<dropZones, dragCounter, dragOver>>
    /\ settled' = [kind |-> "dragover", zone |-> z]
    /\ DropFrame

handleDragEnter(z) ==
    /\ z \in dropZones
    /\ dragCounter[z] < MaxDragDepth
    /\ dragCounter' = [dragCounter EXCEPT ![z] = @ + 1]
    /\ dragOver' = [dragOver EXCEPT ![z] = TRUE]
    /\ UNCHANGED dropZones
    /\ settled' = [kind |-> "dragenter", zone |-> z]
    /\ DropFrame

handleDragLeave(z) ==
    /\ z \in dropZones
    /\ dragCounter[z] > -MaxDragDepth
    /\ dragCounter' = [dragCounter EXCEPT ![z] = @ - 1]
    /\ dragOver' = [dragOver EXCEPT ![z] = IF dragCounter[z] - 1 = 0 THEN FALSE ELSE @]
    /\ UNCHANGED dropZones
    /\ settled' = [kind |-> "dragleave", zone |-> z]
    /\ DropFrame

\* drop with e.dataTransfer.files of length n.
handleDrop(z, n) ==
    /\ z \in dropZones
    /\ dragCounter' = [dragCounter EXCEPT ![z] = 0]
    /\ dragOver' = [dragOver EXCEPT ![z] = FALSE]
    /\ UNCHANGED dropZones
    /\ settled' = [kind |-> "drop", zone |-> z, files |-> n, selected |-> n > 0]
    /\ DropFrame

NextDrop ==
    \/ \E z \in Zones : createDropZone(z)
    \/ \E z \in Zones : cleanup(z)
    \/ \E z \in Zones : handleDrag(z)
    \/ \E z \in Zones : handleDragEnter(z)
    \/ \E z \in Zones : handleDragLeave(z)
    \/ \E z \in Zones, n \in 0..MaxFiles : handleDrop(z, n)

SpecDrop == InitDrop /\ [][NextDrop]_vars

(***************************************************************************)
(* C30. Drop-zone highlight: whatever dragenter, dragleave, dragover and    *)
(* drop events reach a zone made by createDropZone, its target has the      *)
(* class 'drag-over' exactly when its dragCounter is above 0, its           *)
(* dragCounter is never negative, and a drop leaves dragCounter 0 and the   *)
(* class removed.                                                          *)
(***************************************************************************)
DropZoneHighlight ==
    /\ [](\A z \in dropZones : dragOver[z] <=> dragCounter[z] > 0)
    /\ [](\A z \in dropZones : dragCounter[z] >= 0)
    /\ [][ \A z \in Zones, n \in 0..MaxFiles :
              handleDrop(z, n) => (dragCounter'[z] = 0 /\ ~dragOver'[z]) ]_vars

====
